---- MODULE Spec2Model ----
(***************************************************************************)
(* Model of package celestia / solarposition (with J2000 of package        *)
(* julian): the position pipeline (mean anomaly, equation of               *)
(* center, ecliptic longitude, right ascension, declination, sidereal      *)
(* time, hour angle, azimuth, altitude) and the three fixed-point solvers  *)
(* Transit, Sunrise and Sunset.                                            *)
(*                                                                         *)
(* float64 values are modelled as decimal fixed-point numbers with eight   *)
(* fractional digits, plus the two non-finite kinds the code can produce   *)
(* (NaN, +/-Inf).  A finite number is [k |-> "fin", hi, lo] and denotes    *)
(* hi + lo / 10^8 with 0 <= lo < 10^8 (hi is the floor).                   *)
(*                                                                         *)
(* A definition of the form  CHOOSE r \in {e(u) : u \in {x}} : TRUE  is    *)
(* e(x) with x computed once, before e, as a call computes its arguments.  *)
(***************************************************************************)
EXTENDS Integers, Sequences, FiniteSets, TLC

\* ------------------------------------------------------------------------
\* float64 arithmetic
\* ------------------------------------------------------------------------

Base == 100 * 100
FR == Base * Base

Fin(h, l) == [k |-> "fin", hi |-> h, lo |-> l]
NaN == [k |-> "nan", hi |-> 0, lo |-> 0]
Inf(s) == [k |-> "inf", hi |-> s, lo |-> 0]
Norm(h, l) == Fin(h + (l \div FR), l % FR)

Whole(n) == Fin(n, 0)
Zero == Fin(0, 0)
One == Fin(1, 0)

IsNaN(x) == x.k = "nan"
IsInf(x) == x.k = "inf"
IsFin(x) == x.k = "fin"

\* -1, 0 or 1; 0 for NaN
Sgn(x) ==
  IF IsNaN(x) THEN 0
  ELSE IF (x.hi < 0) THEN -1
  ELSE IF (x.hi = 0 /\ x.lo = 0) THEN 0
  ELSE 1

Neg(x) ==
  CHOOSE r \in {IF IsNaN(u) THEN NaN
                ELSE IF IsInf(u) THEN Inf(0 - u.hi)
                ELSE IF u.lo = 0 THEN Fin(0 - u.hi, 0)
                ELSE Fin(0 - u.hi - 1, FR - u.lo) : u \in {x}} : TRUE

ApplySign(s, m) == IF s < 0 THEN Neg(m) ELSE m

Abs(x) == CHOOSE r \in {ApplySign(Sgn(u), u) : u \in {x}} : TRUE

Add(x, y) ==
  CHOOSE r \in {IF IsNaN(u) \/ IsNaN(v) THEN NaN
                ELSE IF IsInf(u) /\ IsInf(v)
                     THEN (IF u.hi = v.hi THEN u ELSE NaN)
                ELSE IF IsInf(u) THEN u
                ELSE IF IsInf(v) THEN v
                ELSE Norm(u.hi + v.hi, u.lo + v.lo) : u \in {x}, v \in {y}} :
    TRUE

Sub(x, y) == Add(x, Neg(y))

\* x < y as float64 compares: false whenever an operand is NaN
Lt(x, y) ==
  \E u \in {x}, v \in {y} :
    IF IsNaN(u) \/ IsNaN(v) THEN FALSE
    ELSE IF IsInf(u) THEN u.hi < 0 /\ ~(IsInf(v) /\ v.hi < 0)
    ELSE IF IsInf(v) THEN v.hi > 0
    ELSE u.hi < v.hi \/ (u.hi = v.hi /\ u.lo < v.lo)

Gt(x, y) == Lt(y, x)
Le(x, y) == \E u \in {x}, v \in {y} : ~IsNaN(u) /\ ~IsNaN(v) /\ ~Lt(v, u)
Ge(x, y) == Le(y, x)

\* the four base-10^4 limbs of a finite non-negative number
L3(a) == a.hi \div Base
L2(a) == a.hi % Base
L1(a) == a.lo \div Base
L0(a) == a.lo % Base

\* the column sums of the limb product, each with the carry of the one below
MulS3(a, b) ==
  L1(a) * L0(b) + L0(a) * L1(b) + ((L0(a) * L0(b)) \div Base)
MulS2(a, b, s3) ==
  L2(a) * L0(b) + L1(a) * L1(b) + L0(a) * L2(b) + (s3 \div Base)
    + (IF 2 * (s3 % Base) >= Base THEN 1 ELSE 0)
MulS1(a, b, s2) ==
  L3(a) * L0(b) + L2(a) * L1(b) + L1(a) * L2(b) + L0(a) * L3(b)
    + (s2 \div Base)
MulS0(a, b, s1) ==
  L3(a) * L1(b) + L2(a) * L2(b) + L1(a) * L3(b) + (s1 \div Base)
MulSH(a, b, s0) == L3(a) * L2(b) + L2(a) * L3(b) + (s0 \div Base)

MulPack(a, b, s2, s1, s0, sH) ==
  Fin((s0 % Base) + sH * Base + L3(a) * L3(b) * FR,
      (s1 % Base) * Base + (s2 % Base))
MulFrom0(a, b, s2, s1, s0) == MulPack(a, b, s2, s1, s0, MulSH(a, b, s0))
MulFrom1(a, b, s2, s1) == MulFrom0(a, b, s2, s1, MulS0(a, b, s1))
MulFrom2(a, b, s2) == MulFrom1(a, b, s2, MulS1(a, b, s2))

\* product of two finite non-negative numbers, rounded to 10^-8
MulMag(a, b) ==
  CHOOSE r \in {MulFrom2(u, v, MulS2(u, v, MulS3(u, v))) :
                u \in {a}, v \in {b}} : TRUE

Mul(x, y) ==
  CHOOSE r \in {IF IsNaN(u) \/ IsNaN(v) THEN NaN
                ELSE IF IsInf(u) \/ IsInf(v)
                     THEN (IF Sgn(u) * Sgn(v) = 0 THEN NaN
                           ELSE Inf(Sgn(u) * Sgn(v)))
                ELSE ApplySign(Sgn(u) * Sgn(v), MulMag(Abs(u), Abs(v))) :
                u \in {x}, v \in {y}} : TRUE

\* the digits of a / n, a limb at a time, each with the remainder above it
DivT2(a, n) == (L3(a) % n) * Base + L2(a)
DivT1(a, n, t2) == (t2 % n) * Base + L1(a)
DivT0(a, n, t1) == (t1 % n) * Base + L0(a)
DivPack(a, n, t2, t1, t0) ==
  Norm((L3(a) \div n) * Base + (t2 \div n),
       (t1 \div n) * Base + (t0 \div n) + (IF 2 * (t0 % n) >= n THEN 1 ELSE 0))
DivFrom1(a, n, t2, t1) == DivPack(a, n, t2, t1, DivT0(a, n, t1))
DivFrom2(a, n, t2) == DivFrom1(a, n, t2, DivT1(a, n, t2))

\* a / n for finite a >= 0 and an integer 0 < n <= 200000, rounded to 10^-8
DivSmallMag(a, n) ==
  CHOOSE r \in {DivFrom2(u, n, DivT2(u, n)) : u \in {a}} : TRUE

Pow10(n) == <<1, 10, 100, 1000, 10000, 100000, 1000000, 10000000,
              100000000, 1000000000>>[n + 1]

\* how many decimal digits m >= 10^4 has beyond five
Excess(m) ==
  IF m < Pow10(5) THEN 0
  ELSE IF m < Pow10(6) THEN 1
  ELSE IF m < Pow10(7) THEN 2
  ELSE IF m < Pow10(8) THEN 3
  ELSE IF m < Pow10(9) THEN 4
  ELSE 5

\* Q * 10^kk / 10^8 as a number, for 10^4 < Q <= 10^5 and -5 <= kk <= 11
Scaled(Q, kk) ==
  IF kk <= 0 THEN Fin(0, Q \div Pow10(0 - kk))
  ELSE IF kk <= 3 THEN Norm(0, Q * Pow10(kk))
  ELSE IF kk < 8 THEN Fin(Q \div Pow10(8 - kk), (Q % Pow10(8 - kk)) * Pow10(kk))
  ELSE Fin(Q * Pow10(kk - 8), 0)

\* 1 / (m * 10^u) to four significant digits, for an integer m >= 10^4
RecipOf(m, u) ==
  Scaled(Pow10(9) \div (m \div Pow10(Excess(m))), 0 - 1 - (u + Excess(m)))

\* a first estimate of 1 / b for finite b > 0
RecipEst(b) ==
  IF b.hi >= Base THEN RecipOf(b.hi, 0)
  ELSE IF b.hi >= 1 THEN RecipOf(b.hi * Base + (b.lo \div Base), -4)
  ELSE IF b.lo >= Base THEN RecipOf(b.lo, -8)
  ELSE RecipOf(b.lo * Base, -12)

\* one residual correction of a quotient q of a / b, given r close to 1 / b
Refine(a, b, r, q) ==
  CHOOSE s \in {Add(u, Mul(Sub(a, MulMag(u, b)), r)) : u \in {q}} : TRUE

NonNeg(q) == CHOOSE s \in {IF Sgn(u) < 0 THEN Zero ELSE u : u \in {q}} : TRUE

DivNewton(a, b, r) ==
  CHOOSE s \in {NonNeg(Refine(a, b, u, Refine(a, b, u, MulMag(a, u)))) :
                u \in {r}} : TRUE

\* a / b for finite a >= 0, b > 0
DivMag(a, b) ==
  CHOOSE r \in {IF v.lo = 0 /\ v.hi <= 200000 THEN DivSmallMag(u, v.hi)
                ELSE DivNewton(u, v, RecipEst(v)) : u \in {a}, v \in {b}} :
    TRUE

Div(x, y) ==
  CHOOSE r \in {IF IsNaN(u) \/ IsNaN(v) THEN NaN
                ELSE IF IsInf(u)
                     THEN (IF IsInf(v) THEN NaN
                           ELSE Inf(u.hi * (IF Sgn(v) < 0 THEN -1 ELSE 1)))
                ELSE IF IsInf(v) THEN Zero
                ELSE IF Sgn(v) = 0
                     THEN (IF Sgn(u) = 0 THEN NaN ELSE Inf(Sgn(u)))
                ELSE ApplySign(Sgn(u) * Sgn(v), DivMag(Abs(u), Abs(v))) :
                u \in {x}, v \in {y}} : TRUE

\* math.Floor, math.Ceil
Floor(x) ==
  CHOOSE r \in {IF IsFin(u) THEN Fin(u.hi, 0) ELSE u : u \in {x}} : TRUE
Ceil(x) ==
  CHOOSE r \in {IF IsFin(u) /\ u.lo # 0 THEN Fin(u.hi + 1, 0)
                ELSE IF IsFin(u) THEN Fin(u.hi, 0)
                ELSE u : u \in {x}} : TRUE

\* the remainder of a finite a >= 0 by 360
Rem360(a) == CHOOSE r \in {Fin(u.hi % 360, u.lo) : u \in {a}} : TRUE

\* math.Mod(x, 360.0): truncated remainder, the result has the sign of x
Mod360(x) ==
  CHOOSE r \in {IF ~IsFin(u) THEN NaN
                ELSE ApplySign(Sgn(u), Rem360(Abs(u))) : u \in {x}} : TRUE

\* ------------------------------------------------------------------------
\* package math: Sin, Cos, Tan, Atan, Atan2, Asin, Acos (arguments and
\* results in radians), and fmt.Sprintf("%.6f", x)
\* ------------------------------------------------------------------------

Pi == Fin(3, 14159265)
HalfPi == Fin(1, 57079633)
TwoPi == Fin(6, 28318531)

\* t1 - t3 + t5 - t7 + t9 - t11 + t13 of finite numbers
AlternatingSum(t1, t3, t5, t7, t9, t11, t13) ==
  Norm(t1.hi - t3.hi + t5.hi - t7.hi + t9.hi - t11.hi + t13.hi,
       t1.lo - t3.lo + t5.lo - t7.lo + t9.lo - t11.lo + t13.lo)

\* r - r^3/3! + r^5/5! - r^7/7! + r^9/9! - r^11/11! + r^13/13!
SinTerms(r, r2, r4) ==
  CHOOSE s \in
    {AlternatingSum(r, t3, t5, t7, t9, t11, t13) :
       t3 \in {DivSmallMag(MulMag(r2, r), 6)},
       t5 \in {DivSmallMag(MulMag(r4, r), 120)},
       t7 \in {DivSmallMag(MulMag(r4, MulMag(r2, r)), 5040)},
       t9 \in {DivSmallMag(DivSmallMag(MulMag(r4, MulMag(r4, r)), 720), 504)},
       t11 \in {DivSmallMag(DivSmallMag(DivSmallMag(
                  MulMag(r4, MulMag(r4, MulMag(r2, r))), 720), 504), 110)},
       t13 \in {DivSmallMag(DivSmallMag(DivSmallMag(DivSmallMag(
                  MulMag(r4, MulMag(r4, MulMag(r4, r))), 720), 504), 110),
                  156)}} : TRUE

SinPoly(r, r2, r4) == CHOOSE s \in {SinTerms(r, r2, w) : w \in {r4}} : TRUE

SinFromR2(r, r2) ==
  CHOOSE s \in {SinPoly(r, v, MulMag(v, v)) : v \in {r2}} : TRUE

\* the sine series on [0, pi/2]
SinSeries(r) == CHOOSE s \in {SinFromR2(u, MulMag(u, u)) : u \in {r}} : TRUE

\* a finite r0 in (-2 pi, 4 pi) brought into [0, 2 pi)
Wrap(r0) ==
  CHOOSE r \in {IF Sgn(u) < 0 THEN Add(u, TwoPi)
                ELSE IF Ge(u, TwoPi) THEN Sub(u, TwoPi)
                ELSE u : u \in {r0}} : TRUE

\* how many whole turns a finite a >= 0 holds, within one
Turns(a) == (a.hi * Base + (a.lo \div Base)) \div 62832

\* r in [0, 2 pi) folded into the first quadrant, and the sign of sin r
FoldArg(r) ==
  IF Le(r, HalfPi) THEN r
  ELSE IF Le(r, Pi) THEN Sub(Pi, r)
  ELSE IF Le(r, Add(Pi, HalfPi)) THEN Sub(r, Pi)
  ELSE Sub(TwoPi, r)

FoldSign(r) == IF Le(r, Pi) THEN 1 ELSE -1

SinFold(r) ==
  CHOOSE s \in {ApplySign(FoldSign(u), SinSeries(FoldArg(u))) : u \in {r}} :
    TRUE

\* sin a for a finite a >= 0
SinMag(a) ==
  CHOOSE s \in {SinFold(Wrap(Sub(u, MulMag(TwoPi, Whole(Turns(u)))))) :
                u \in {a}} : TRUE

Sin(x) ==
  CHOOSE s \in {IF ~IsFin(u) THEN NaN ELSE ApplySign(Sgn(u), SinMag(Abs(u))) :
                u \in {x}} : TRUE

Cos(x) ==
  CHOOSE s \in {IF ~IsFin(u) THEN NaN ELSE SinMag(Add(Abs(u), HalfPi)) :
                u \in {x}} : TRUE

Tan(x) == CHOOSE s \in {Div(Sin(u), Cos(u)) : u \in {x}} : TRUE

\* x / k for a finite x and an integer 0 < k <= 200000
DivSmall(x, k) ==
  CHOOSE r \in {ApplySign(Sgn(u), DivSmallMag(Abs(u), k)) : u \in {x}} : TRUE

\* u - u^3/3 + u^5/5 - u^7/7 + u^9/9
AtanTerms(u, u2) ==
  CHOOSE s \in
    {AlternatingSum(u, t3, t5, t7, t9, Zero, Zero) :
       t3 \in {DivSmall(Mul(u2, u), 3)},
       t5 \in {DivSmall(Mul(u2, Mul(u2, u)), 5)},
       t7 \in {DivSmall(Mul(u2, Mul(u2, Mul(u2, u))), 7)},
       t9 \in {DivSmall(Mul(u2, Mul(u2, Mul(u2, Mul(u2, u)))), 9)}} : TRUE

AtanPoly(u, u2) == CHOOSE s \in {AtanTerms(u, w) : w \in {u2}} : TRUE

\* the arctangent series for |u| <= 1/8
AtanSeries(u) == CHOOSE s \in {AtanPoly(v, Mul(v, v)) : v \in {u}} : TRUE

\* the nearest of 0, 1/4, 1/2, 3/4, 1 to t in [0, 1], as a count of quarters
Quarter(t) == (t.lo + 12500000) \div 25000000 + 4 * t.hi

AtanOfQuarter(q) ==
  <<Zero, Fin(0, 24497866), Fin(0, 46364761), Fin(0, 64350111),
    Fin(0, 78539816)>>[q + 1]

\* (t - c) / (1 + t c)
AtanShift(t, c) ==
  CHOOSE s \in {IF Sgn(v) = 0 THEN t
                ELSE Div(Sub(t, v), Add(One, MulMag(t, v))) : v \in {c}} : TRUE

\* arctangent of a finite 0 <= t <= 1: atan(c) + atan((t - c) / (1 + t c))
AtanUnit(t) ==
  CHOOSE s \in {Add(AtanOfQuarter(Quarter(u)),
                    AtanSeries(AtanShift(u, DivSmallMag(Whole(Quarter(u)),
                                                        4)))) :
                u \in {t}} : TRUE

\* the angle of (ax, ay), ax, ay >= 0 not both zero
AtanOctant(ay, ax) ==
  CHOOSE s \in
    {IF Le(ay, ax) THEN a ELSE Sub(HalfPi, a) :
     a \in {AtanUnit(IF Le(ay, ax) THEN DivMag(ay, ax)
                     ELSE DivMag(ax, ay))}} : TRUE

\* the angle of (x, y) from the angle a of (|x|, |y|)
FromQuadrant(y, x, a) ==
  ApplySign(Sgn(y), IF Sgn(x) >= 0 THEN a ELSE Sub(Pi, a))

Atan2(y, x) ==
  CHOOSE s \in
    {IF IsNaN(v) \/ IsNaN(u) THEN NaN
     ELSE IF IsInf(v) /\ IsInf(u)
          THEN ApplySign(Sgn(v), IF Sgn(u) > 0 THEN DivSmallMag(Pi, 4)
                                 ELSE Sub(Pi, DivSmallMag(Pi, 4)))
     ELSE IF IsInf(v) THEN ApplySign(Sgn(v), HalfPi)
     ELSE IF IsInf(u) THEN (IF Sgn(u) > 0 THEN Zero ELSE ApplySign(Sgn(v), Pi))
     ELSE IF Sgn(u) = 0 /\ Sgn(v) = 0 THEN Zero
     ELSE FromQuadrant(v, u, AtanOctant(Abs(v), Abs(u))) :
     v \in {y}, u \in {x}} : TRUE

Atan(x) == Atan2(x, One)

RECURSIVE ISqrtIn(_, _, _)
\* the largest s in lo..hi with s * s <= n
ISqrtIn(n, lo, hi) ==
  IF lo >= hi THEN lo
  ELSE IF ((lo + hi + 1) \div 2) * ((lo + hi + 1) \div 2) <= n
       THEN ISqrtIn(n, (lo + hi + 1) \div 2, hi)
  ELSE ISqrtIn(n, lo, ((lo + hi + 1) \div 2) - 1)

HeronStep(v, s) ==
  CHOOSE r \in {DivSmallMag(Add(u, DivMag(v, u)), 2) : u \in {s}} : TRUE

\* square root of a finite 0 <= v <= 1
SqrtUnit(v) ==
  CHOOSE r \in
    {IF Sgn(u) = 0 THEN Zero
     ELSE IF u.hi >= 1 THEN One
     ELSE HeronStep(u, HeronStep(u, Fin(0, ISqrtIn(u.lo, 1, Base - 1)
                                             * Base))) : u \in {v}} : TRUE

Asin(x) ==
  CHOOSE r \in {IF ~IsFin(u) \/ Gt(Abs(u), One) THEN NaN
                ELSE Atan2(u, SqrtUnit(Sub(One, Mul(u, u)))) : u \in {x}} :
    TRUE

\* an arccosine that clamps its argument into [-1, 1]
AcosClamped(x) ==
  CHOOSE r \in {IF IsNaN(u) THEN NaN
                ELSE IF Gt(u, One) THEN Zero
                ELSE IF Lt(u, Neg(One)) THEN Pi
                ELSE Atan2(SqrtUnit(Sub(One, Mul(u, u))), u) : u \in {x}} :
    TRUE

Acos(x) ==
  CHOOSE r \in {IF ~IsFin(u) \/ Gt(Abs(u), One) THEN NaN
                ELSE Atan2(SqrtUnit(Sub(One, Mul(u, u))), u) : u \in {x}} :
    TRUE

\* a.lo cut to 10^-3, in units of 10^-6
MicroOfMilli(a) == (a.lo \div 100000) * 1000

\* a.lo rounded to 10^-6, ties to even
Micro(a) ==
  IF a.lo % 100 > 50 \/ (a.lo % 100 = 50 /\ (a.lo \div 100) % 2 = 1)
  THEN (a.lo \div 100) + 1
  ELSE a.lo \div 100

\* the digits of a finite a >= 0 to six places
Digits(a) ==
  CHOOSE r \in {<<u.hi + (Micro(u) \div 1000000), Micro(u) % 1000000>> :
                u \in {a}} : TRUE

\* fmt.Sprintf("%.6f", x): the sign, the integer digits and the six
\* fractional digits of x
Sprintf6(x) ==
  CHOOSE r \in
    {IF IsNaN(u) THEN <<"NaN", 0, 0>>
     ELSE IF IsInf(u) THEN <<IF u.hi < 0 THEN "-Inf" ELSE "+Inf", 0, 0>>
     ELSE <<IF Sgn(u) < 0 THEN "-" ELSE "">> \o Digits(Abs(u)) :
     u \in {x}} : TRUE

\* ------------------------------------------------------------------------
\* package julian and the constant table of package celestia
\* ------------------------------------------------------------------------

J2000 == Fin(2451545, 0)

\* x * RAD and x * DEG, RAD = math.Pi / 180, DEG = 180 / math.Pi
TimesRAD(x) == Div(Mul(x, Pi), Whole(180))
TimesDEG(x) == Mul(x, Fin(57, 29577951))

\* MeanAnomaly
M0Mercury == Fin(174, 79480000)
M0Venus == Fin(50, 41610000)
M0Earth == Fin(357, 52910000)
M0Mars == Fin(19, 37300000)
M0Jupiter == Fin(20, 2020000)
M0Saturn == Fin(317, 2070000)
M1Mercury == Fin(4, 9233445)
M1Venus == Fin(1, 60213034)
M1Earth == Fin(0, 98560028)
M1Mars == Fin(0, 52402068)
M1Jupiter == Fin(0, 8308529)
M1Saturn == Fin(0, 3344414)
\* ObliquityEcliptic
EMercury == Fin(0, 3510000)
EVenus == Fin(2, 63760000)
EEarth == Fin(23, 43930000)
EMars == Fin(25, 19180000)
EJupiter == Fin(3, 11890000)
ESaturn == Fin(26, 72850000)
\* PerihelionLongitude
PMercury == Fin(230, 32650000)
PVenus == Fin(73, 75760000)
PEarth == Fin(102, 93730000)
PMars == Fin(71, 410000)
PJupiter == Fin(237, 10150000)
PSaturn == Fin(99, 45870000)
\* SiderealTime
T0Mercury == Fin(132, 32820000)
T0Venus == Fin(104, 90670000)
T0Earth == Fin(280, 14700000)
T0Mars == Fin(313, 38270000)
T0Jupiter == Fin(145, 97220000)
T0Saturn == Fin(174, 35080000)
T1Mercury == Fin(6, 13850250)
T1Venus == Neg(Fin(1, 48136880))
T1Earth == Fin(360, 98562350)
T1Mars == Fin(350, 89198226)
T1Jupiter == Fin(870, 53600000)
T1Saturn == Fin(810, 79390240)
\* Sunrise/Sunset
h_0Mercury == Neg(Fin(0, 69000000))
h_0Venus == Neg(Fin(0, 37000000))
h_0Earth == Neg(Fin(0, 83000000))
h_0Mars == Neg(Fin(0, 17000000))
h_0Jupiter == Neg(Fin(0, 5000000))
h_0Saturn == Neg(Fin(0, 3000000))
\* EquationOfCenter: C1..C6 of each body
CMercury == <<Fin(23, 44000000), Fin(2, 98180000), Fin(0, 52550000), Fin(0, 10580000), Fin(0, 2410000), Fin(0, 550000)>>
CVenus == <<Fin(0, 77580000), Fin(0, 330000), Fin(0, 0), Fin(0, 0), Fin(0, 0), Fin(0, 0)>>
CEarth == <<Fin(1, 91480000), Fin(0, 2000000), Fin(0, 30000), Fin(0, 0), Fin(0, 0), Fin(0, 0)>>
CMars == <<Fin(10, 69120000), Fin(0, 62280000), Fin(0, 5030000), Fin(0, 460000), Fin(0, 50000), Fin(0, 0)>>
CJupiter == <<Fin(5, 55490000), Fin(0, 16830000), Fin(0, 710000), Fin(0, 30000), Fin(0, 0), Fin(0, 0)>>
CSaturn == <<Fin(6, 35850000), Fin(0, 22040000), Fin(0, 1060000), Fin(0, 60000), Fin(0, 0), Fin(0, 0)>>

\* ------------------------------------------------------------------------
\* package celestia: the position pipeline.  A call returns (value, error).
\* ------------------------------------------------------------------------

Nil == "nil"
ErrInvalidEnum == "invalid planet enum, see README"

Ret(v, e) == [val |-> v, err |-> e]


\* the hour angle passed on as HourAngle returned it
normalize90Skipped(angle) == angle
normalize90(angle) ==
  CHOOSE r \in {IF Gt(u, Whole(180)) THEN Sub(u, Whole(360))
                ELSE IF Lt(u, Neg(Whole(180))) THEN Add(u, Whole(360))
                ELSE u : u \in {angle}} : TRUE

\* MeanAnomaly with the default case of its switch forgotten
MeanAnomalyNoDefault(jd, p) ==
  CASE p = 0 -> Ret(Mod360(Add(M0Mercury, Mul(M1Mercury, Sub(jd, J2000)))), Nil)
    [] p = 1 -> Ret(Mod360(Add(M0Venus, Mul(M1Venus, Sub(jd, J2000)))), Nil)
    [] p = 2 -> Ret(Mod360(Add(M0Earth, Mul(M1Earth, Sub(jd, J2000)))), Nil)
    [] p = 3 -> Ret(Mod360(Add(M0Mars, Mul(M1Mars, Sub(jd, J2000)))), Nil)
    [] p = 4 -> Ret(Mod360(Add(M0Jupiter, Mul(M1Jupiter, Sub(jd, J2000)))), Nil)
    [] p = 5 -> Ret(Mod360(Add(M0Saturn, Mul(M1Saturn, Sub(jd, J2000)))), Nil)
    [] OTHER -> Ret(Zero, Nil)

\* MeanAnomaly with the rate of Mars in the case of Earth
MeanAnomalyWrongRate(jd, p) ==
  CASE p = 0 -> Ret(Mod360(Add(M0Mercury, Mul(M1Mercury, Sub(jd, J2000)))), Nil)
    [] p = 1 -> Ret(Mod360(Add(M0Venus, Mul(M1Venus, Sub(jd, J2000)))), Nil)
    [] p = 2 -> Ret(Mod360(Add(M0Earth, Mul(M1Mars, Sub(jd, J2000)))), Nil)
    [] p = 3 -> Ret(Mod360(Add(M0Mars, Mul(M1Mars, Sub(jd, J2000)))), Nil)
    [] p = 4 -> Ret(Mod360(Add(M0Jupiter, Mul(M1Jupiter, Sub(jd, J2000)))), Nil)
    [] p = 5 -> Ret(Mod360(Add(M0Saturn, Mul(M1Saturn, Sub(jd, J2000)))), Nil)
    [] OTHER -> Ret(Zero, ErrInvalidEnum)

MeanAnomaly(jd, p) ==
  CASE p = 0 -> Ret(Mod360(Add(M0Mercury, Mul(M1Mercury, Sub(jd, J2000)))), Nil)
    [] p = 1 -> Ret(Mod360(Add(M0Venus, Mul(M1Venus, Sub(jd, J2000)))), Nil)
    [] p = 2 -> Ret(Mod360(Add(M0Earth, Mul(M1Earth, Sub(jd, J2000)))), Nil)
    [] p = 3 -> Ret(Mod360(Add(M0Mars, Mul(M1Mars, Sub(jd, J2000)))), Nil)
    [] p = 4 -> Ret(Mod360(Add(M0Jupiter, Mul(M1Jupiter, Sub(jd, J2000)))), Nil)
    [] p = 5 -> Ret(Mod360(Add(M0Saturn, Mul(M1Saturn, Sub(jd, J2000)))), Nil)
    [] OTHER -> Ret(Zero, ErrInvalidEnum)

\* ObliquityEcliptic with the constants of Mars and Jupiter exchanged
ObliquityEclipticSwapped(p) ==
  CASE p = 0 -> Ret(EMercury, Nil)
    [] p = 1 -> Ret(EVenus, Nil)
    [] p = 2 -> Ret(EEarth, Nil)
    [] p = 3 -> Ret(EJupiter, Nil)
    [] p = 4 -> Ret(EMars, Nil)
    [] p = 5 -> Ret(ESaturn, Nil)
    [] OTHER -> Ret(Zero, ErrInvalidEnum)

ObliquityEcliptic(p) ==
  CASE p = 0 -> Ret(EMercury, Nil)
    [] p = 1 -> Ret(EVenus, Nil)
    [] p = 2 -> Ret(EEarth, Nil)
    [] p = 3 -> Ret(EMars, Nil)
    [] p = 4 -> Ret(EJupiter, Nil)
    [] p = 5 -> Ret(ESaturn, Nil)
    [] OTHER -> Ret(Zero, ErrInvalidEnum)

\* PerihelionLongitude with the case of Saturn missing
PerihelionLongitudeNoSaturn(p) ==
  CASE p = 0 -> Ret(PMercury, Nil)
    [] p = 1 -> Ret(PVenus, Nil)
    [] p = 2 -> Ret(PEarth, Nil)
    [] p = 3 -> Ret(PMars, Nil)
    [] p = 4 -> Ret(PJupiter, Nil)
    [] OTHER -> Ret(Zero, ErrInvalidEnum)

PerihelionLongitude(p) ==
  CASE p = 0 -> Ret(PMercury, Nil)
    [] p = 1 -> Ret(PVenus, Nil)
    [] p = 2 -> Ret(PEarth, Nil)
    [] p = 3 -> Ret(PMars, Nil)
    [] p = 4 -> Ret(PJupiter, Nil)
    [] p = 5 -> Ret(PSaturn, Nil)
    [] OTHER -> Ret(Zero, ErrInvalidEnum)

\* c1*sin(m) + c2*sin(2*m) + c3*sin(3*m) + c4*sin(4*m) + c5*sin(5*m)
\* + c6*sin(6*m), c = <<c1, ..., c6>>
calcSum(c, m) ==
  CHOOSE r \in
    {Add(Add(Add(Add(Add(s1, s2), s3), s4), s5), s6) :
       s1 \in {Mul(c[1], Sin(m))},
       s2 \in {Mul(c[2], Sin(Mul(Whole(2), m)))},
       s3 \in {Mul(c[3], Sin(Mul(Whole(3), m)))},
       s4 \in {Mul(c[4], Sin(Mul(Whole(4), m)))},
       s5 \in {Mul(c[5], Sin(Mul(Whole(5), m)))},
       s6 \in {Mul(c[6], Sin(Mul(Whole(6), m)))}} : TRUE

\* the closure calc of EquationOfCenter
calc(c, m) == CHOOSE r \in {calcSum(c, u) : u \in {m}} : TRUE

\* the coefficients C1..C6 the switch of EquationOfCenter passes to calc
CoefficientsOf(p) ==
  CASE p = 0 -> CMercury
    [] p = 1 -> CVenus
    [] p = 2 -> CEarth
    [] p = 3 -> CMars
    [] p = 4 -> CJupiter
    [] p = 5 -> CSaturn

\* EquationOfCenter after its call of MeanAnomaly has returned M
EquationOfCenterOf(M, p) ==
  IF M.err # Nil THEN Ret(Zero, M.err)
  ELSE IF p \in 0..5 THEN Ret(calc(CoefficientsOf(p), TimesRAD(M.val)), Nil)
  ELSE Ret(Zero, ErrInvalidEnum)

EquationOfCenter(jd, p) ==
  CHOOSE r \in {EquationOfCenterOf(M, p) : M \in {MeanAnomaly(jd, p)}} : TRUE

\* x brought into [0, 360)
Normalize360(x) ==
  CHOOSE r \in {IF Lt(u, Zero) THEN Add(u, Whole(360)) ELSE u :
                u \in {Mod360(x)}} : TRUE

\* TrueAnomaly with the sum brought into [0, 360)
TrueAnomalyOfNormalized(M, C) ==
  IF M.err # Nil THEN Ret(Zero, M.err)
  ELSE IF C.err # Nil THEN Ret(Zero, C.err)
  ELSE Ret(Normalize360(Add(M.val, C.val)), C.err)

\* TrueAnomaly after its calls have returned M and C
TrueAnomalyOf(M, C) ==
  IF M.err # Nil THEN Ret(Zero, M.err)
  ELSE IF C.err # Nil THEN Ret(Zero, C.err)
  ELSE Ret(Add(M.val, C.val), C.err)

TrueAnomaly(jd, p) ==
  CHOOSE r \in {TrueAnomalyOf(M, C) :
                M \in {MeanAnomaly(jd, p)},
                C \in {EquationOfCenter(jd, p)}} : TRUE

\* the reduction applied to every l, negative ones brought into [0, 360)
ReduceAbove360Normalizing(l) == Normalize360(l)

\* the reduction by subtraction: l -= 360.0 while l > 360.0, which stops at
\* 360 where math.Mod gives 0
ReduceAbove360BySubtraction(l) ==
  CHOOSE r \in {IF ~Gt(u, Whole(360)) THEN u
                ELSE IF Mod360(u) = Zero THEN Whole(360)
                ELSE Mod360(u) : u \in {l}} : TRUE

\* for l > 360.0 { l = math.Mod(l, 360.0) }: one pass leaves l < 360
ReduceAbove360(l) ==
  CHOOSE r \in {IF Gt(u, Whole(360)) THEN Mod360(u) ELSE u : u \in {l}} : TRUE

\* EclipticLongitude after its calls have returned M, w and C
EclipticLongitudeOf(M, w, C) ==
  IF M.err # Nil THEN Ret(Zero, M.err)
  ELSE IF w.err # Nil THEN Ret(Zero, w.err)
  ELSE IF C.err # Nil THEN Ret(Zero, C.err)
  ELSE Ret(ReduceAbove360(Add(Add(Add(M.val, w.val), Whole(180)), C.val)),
           C.err)

EclipticLongitude(jd, p) ==
  CHOOSE r \in {EclipticLongitudeOf(M, w, C) :
                M \in {MeanAnomaly(jd, p)},
                w \in {PerihelionLongitude(p)},
                C \in {EquationOfCenter(jd, p)}} : TRUE

\* math.Atan2(sin(l) * cos(e), cos(l)) * DEG, l and e in radians
RightAscensionAt(l, e) ==
  CHOOSE r \in {TimesDEG(Atan2(Mul(Sin(u), Cos(v)), Cos(u))) :
                u \in {l}, v \in {e}} : TRUE

\* RightAscension after its calls have returned l and e
RightAscensionOf(l, e) ==
  IF l.err # Nil THEN Ret(Zero, l.err)
  ELSE IF e.err # Nil THEN Ret(Zero, e.err)
  ELSE Ret(RightAscensionAt(TimesRAD(l.val), TimesRAD(e.val)), e.err)

RightAscension(jd, p) ==
  CHOOSE r \in {RightAscensionOf(l, e) :
                l \in {EclipticLongitude(jd, p)},
                e \in {ObliquityEcliptic(p)}} : TRUE

\* Declination with math.Asin in the place of math.Atan
DeclinationOfAsin(l, e) ==
  IF l.err # Nil THEN Ret(Zero, l.err)
  ELSE IF e.err # Nil THEN Ret(Zero, e.err)
  ELSE Ret(TimesDEG(Asin(Mul(Sin(TimesRAD(l.val)), Sin(TimesRAD(e.val))))),
           e.err)

\* Declination after its calls have returned l and e
DeclinationOf(l, e) ==
  IF l.err # Nil THEN Ret(Zero, l.err)
  ELSE IF e.err # Nil THEN Ret(Zero, e.err)
  ELSE Ret(TimesDEG(Atan(Mul(Sin(TimesRAD(l.val)), Sin(TimesRAD(e.val))))),
           e.err)

Declination(jd, p) ==
  CHOOSE r \in {DeclinationOf(l, e) :
                l \in {EclipticLongitude(jd, p)},
                e \in {ObliquityEcliptic(p)}} : TRUE

SiderealTime(jd, p, lon) ==
  CASE p = 0 -> Ret(ReduceAbove360(Sub(Add(T0Mercury, Mul(T1Mercury, Sub(jd, J2000))), lon)), Nil)
    [] p = 1 -> Ret(ReduceAbove360(Sub(Add(T0Venus, Mul(T1Venus, Sub(jd, J2000))), lon)), Nil)
    [] p = 2 -> Ret(ReduceAbove360(Sub(Add(T0Earth, Mul(T1Earth, Sub(jd, J2000))), lon)), Nil)
    [] p = 3 -> Ret(ReduceAbove360(Sub(Add(T0Mars, Mul(T1Mars, Sub(jd, J2000))), lon)), Nil)
    [] p = 4 -> Ret(ReduceAbove360(Sub(Add(T0Jupiter, Mul(T1Jupiter, Sub(jd, J2000))), lon)), Nil)
    [] p = 5 -> Ret(ReduceAbove360(Sub(Add(T0Saturn, Mul(T1Saturn, Sub(jd, J2000))), lon)), Nil)
    [] OTHER -> Ret(ReduceAbove360(Zero), ErrInvalidEnum)

\* HourAngle with the difference normalized as the solvers normalize it
HourAngleOfNormalized(theta, a) ==
  IF theta.err # Nil THEN Ret(Zero, theta.err)
  ELSE IF a.err # Nil THEN Ret(Zero, a.err)
  ELSE Ret(normalize90(Sub(theta.val, a.val)), a.err)

\* HourAngle after its calls have returned theta and a
HourAngleOf(theta, a) ==
  IF theta.err # Nil THEN Ret(Zero, theta.err)
  ELSE IF a.err # Nil THEN Ret(Zero, a.err)
  ELSE Ret(Sub(theta.val, a.val), a.err)

HourAngle(jd, p, lon) ==
  CHOOSE r \in {HourAngleOf(theta, a) :
                theta \in {SiderealTime(jd, p, lon)},
                a \in {RightAscension(jd, p)}} : TRUE

\* math.Atan2(sin H, cos H * sin lat - tan d * cos lat) * DEG, in radians
AzimuthAt(H, d, lat) ==
  CHOOSE r \in {TimesDEG(Atan2(Sin(u),
                               Sub(Mul(Cos(u), Sin(v)), Mul(Tan(d), Cos(v))))) :
                u \in {H}, v \in {lat}} : TRUE

\* Azimuth after its calls have returned d and H
AzimuthOf(d, H, lat) ==
  IF d.err # Nil THEN Ret(Zero, d.err)
  ELSE IF H.err # Nil THEN Ret(Zero, H.err)
  ELSE Ret(AzimuthAt(TimesRAD(H.val), TimesRAD(d.val), TimesRAD(lat)), H.err)

Azimuth(jd, p, lat, lon) ==
  CHOOSE r \in {AzimuthOf(d, H, lat) :
                d \in {Declination(jd, p)},
                H \in {HourAngle(jd, p, lon)}} : TRUE

\* math.Asin(sin lat * sin d + cos lat * cos d * cos H) * DEG, in radians
AltitudeAt(H, d, lat) ==
  CHOOSE r \in {TimesDEG(Asin(Add(Mul(Sin(v), Sin(u)),
                                  Mul(Mul(Cos(v), Cos(u)), Cos(H))))) :
                u \in {d}, v \in {lat}} : TRUE

\* Altitude after its calls have returned d and H
AltitudeOf(d, H, lat) ==
  IF d.err # Nil THEN Ret(Zero, d.err)
  ELSE IF H.err # Nil THEN Ret(Zero, H.err)
  ELSE Ret(AltitudeAt(TimesRAD(H.val), TimesRAD(d.val), TimesRAD(lat)), H.err)

Altitude(jd, p, lat, lon) ==
  CHOOSE r \in {AltitudeOf(d, H, lat) :
                d \in {Declination(jd, p)},
                H \in {HourAngle(jd, p, lon)}} : TRUE

\* ------------------------------------------------------------------------
\* package celestia: Transit, Sunrise, Sunset
\* ------------------------------------------------------------------------

\* the switch of Transit, Sunrise and Sunset setting J3 (0 outside 0..5,
\* where the functions have already returned)
TransitJ3(p) ==
  CASE p = 0 -> Div(Whole(360), Sub(T1Mercury, M1Mercury))
    [] p = 1 -> Div(Whole(360), Sub(T1Venus, M1Venus))
    [] p = 2 -> Div(Whole(360), Sub(T1Earth, M1Earth))
    [] p = 3 -> Div(Whole(360), Sub(T1Mars, M1Mars))
    [] p = 4 -> Div(Whole(360), Sub(T1Jupiter, M1Jupiter))
    [] p = 5 -> Div(Whole(360), Sub(T1Saturn, M1Saturn))
    [] OTHER -> Zero

\* the factors the switch of Transit multiplies by J3 / 360.0
TransitJ0Factor(p) ==
  CASE p = 0 -> Sub(Add(Add(M0Mercury, PMercury), Whole(180)), T0Mercury)
    [] p = 1 -> Sub(Add(Add(M0Venus, PVenus), Whole(180)), T0Venus)
    [] p = 2 -> Sub(Add(Add(M0Earth, PEarth), Whole(180)), T0Earth)
    [] p = 3 -> Sub(Add(Add(M0Mars, PMars), Whole(180)), T0Mars)
    [] p = 4 -> Sub(Add(Add(M0Jupiter, PJupiter), Whole(180)), T0Jupiter)
    [] p = 5 -> Sub(Add(Add(M0Saturn, PSaturn), Whole(180)), T0Saturn)
    [] OTHER -> Zero

TransitJ1Factor(p) ==
  CASE p = 0 -> CMercury[1]
    [] p = 1 -> CVenus[1]
    [] p = 2 -> CEarth[1]
    [] p = 3 -> CMars[1]
    [] p = 4 -> CJupiter[1]
    [] p = 5 -> CSaturn[1]
    [] OTHER -> Zero

TransitJ2Factor(p) ==
  CASE p = 0 -> Zero
    [] p = 1 -> Neg(Fin(0, 3040000))
    [] p = 2 -> Neg(Fin(2, 46570000))
    [] p = 3 -> Neg(Fin(2, 86080000))
    [] p = 4 -> Neg(Fin(2, 86080000))
    [] p = 5 -> Neg(Fin(2, 86080000))
    [] OTHER -> Zero

\* J2 = 0 for Mercury, a factor times J3 / 360.0 for the others
TransitJ2Of(p, q) == IF p = 0 THEN Zero ELSE Mul(TransitJ2Factor(p), q)

\* n_x rounded to the nearest whole number, a tie away from zero
Transit_nAwayFromZero(n_x) ==
  CHOOSE n \in {IF Lt(u, Zero)
                THEN Neg(Floor(Add(Neg(u), Fin(0, 50000000))))
                ELSE Floor(Add(u, Fin(0, 50000000))) : u \in {n_x}} : TRUE

\* n = math.Ceil(n_x) if n_x - math.Floor(n_x) >= 0.5, else math.Floor(n_x)
Transit_n(n_x) ==
  CHOOSE n \in {IF Ge(Sub(u, Floor(u)), Fin(0, 50000000)) THEN Ceil(u)
                ELSE Floor(u) : u \in {n_x}} : TRUE

\* J_transit = jd + J3*(n-n_x) + J1*sin(M*RAD) + J2*sin(2*l*RAD)
TransitSum(jd, J3v, J1v, J2v, n_x, Mv, lv) ==
  CHOOSE J \in {Add(Add(Add(jd, Mul(J3v, Sub(Transit_n(u), u))),
                        Mul(J1v, Sin(TimesRAD(Mv)))),
                    Mul(J2v, Sin(TimesRAD(Mul(Whole(2), lv))))) :
                u \in {n_x}} : TRUE

\* n_x = (jd - julian.J2000 - J0) / J3 - lon / 360.0
Transit_n_x(jd, lon, J0v, J3v) ==
  Sub(Div(Sub(Sub(jd, J2000), J0v), J3v), Div(lon, Whole(360)))

\* the estimate from J3 and q = J3 / 360.0
TransitFromJ3(jd, p, lon, Mv, lv, J3v, q) ==
  CHOOSE J \in
    {TransitSum(jd, J3v, Mul(TransitJ1Factor(p), v), TransitJ2Of(p, v),
                Transit_n_x(jd, lon, Mul(TransitJ0Factor(p), v), J3v),
                Mv, lv) : v \in {q}} : TRUE

\* the first estimate of J_transit, from M and l at the caller's jd
TransitEstimate(jd, p, lon, Mv, lv) ==
  CHOOSE J \in {TransitFromJ3(jd, p, lon, Mv, lv, u, Div(u, Whole(360))) :
                u \in {TransitJ3(p)}} : TRUE

\* n_x as Transit computes it for body p: J0 is its factor times J3 / 360.0
Transit_n_xFromJ3(jd, p, lon, J3v) ==
  Transit_n_x(jd, lon, Mul(TransitJ0Factor(p), Div(J3v, Whole(360))), J3v)

Transit_n_xOf(jd, p, lon) ==
  CHOOSE r \in {Transit_n_xFromJ3(jd, p, lon, u) : u \in {TransitJ3(p)}} : TRUE

\* one refinement of Transit: J_transit -= (H / 360.0) * J3
TransitStep(J, H, J3v) == Sub(J, Mul(Div(H, Whole(360)), J3v))

\* the numerator divided by cos(lat) * cos(d)
HorizonRatioOverBoth(h_0, lat, d) ==
  Div(Sub(Sin(h_0), Mul(Sin(lat), Sin(d))), Mul(Cos(lat), Cos(d)))

\* (sin(h_0) - sin(lat) * sin(d)) / cos(lat) * cos(d), in radians
HorizonRatio(h_0, lat, d) ==
  CHOOSE r \in {Mul(Div(Sub(Sin(h_0), Mul(Sin(u), Sin(v))), Cos(u)), Cos(v)) :
                u \in {lat}, v \in {d}} : TRUE

HorizonArg(h_0, lat, d) ==
  HorizonRatio(TimesRAD(h_0), TimesRAD(lat), TimesRAD(d))

\* the h_0 the switch of Sunrise and Sunset uses
h_0Of(p) ==
  CASE p = 0 -> h_0Mercury
    [] p = 1 -> h_0Venus
    [] p = 2 -> h_0Earth
    [] p = 3 -> h_0Mars
    [] p = 4 -> h_0Jupiter
    [] p = 5 -> h_0Saturn

\* the horizon hour angle of Sunrise (H_rise) and Sunset (H_set)
SunriseH_rise(p, lat, d) ==
  IF p \in 0..5 THEN TimesDEG(Acos(HorizonArg(h_0Of(p), lat, d))) ELSE Zero

SunsetH_set(p, lat, d) ==
  IF p \in 0..5 THEN TimesDEG(Acos(HorizonArg(h_0Of(p), lat, d))) ELSE Zero

\* Earth's correction scale, whatever the body
SunriseJ3OfEarth(b) == Div(Whole(360), Sub(T1Earth, M1Earth))
SunriseJ3(p) ==
  CASE p = 0 -> Div(Whole(360), Sub(T1Mercury, M1Mercury))
    [] p = 1 -> Div(Whole(360), Sub(T1Venus, M1Venus))
    [] p = 2 -> Div(Whole(360), Sub(T1Earth, M1Earth))
    [] p = 3 -> Div(Whole(360), Sub(T1Mars, M1Mars))
    [] p = 4 -> Div(Whole(360), Sub(T1Jupiter, M1Jupiter))
    [] p = 5 -> Div(Whole(360), Sub(T1Saturn, M1Saturn))
    [] OTHER -> Zero

SunsetJ3(p) ==
  CASE p = 0 -> Div(Whole(360), Sub(T1Mercury, M1Mercury))
    [] p = 1 -> Div(Whole(360), Sub(T1Venus, M1Venus))
    [] p = 2 -> Div(Whole(360), Sub(T1Earth, M1Earth))
    [] p = 3 -> Div(Whole(360), Sub(T1Mars, M1Mars))
    [] p = 4 -> Div(Whole(360), Sub(T1Jupiter, M1Jupiter))
    [] p = 5 -> Div(Whole(360), Sub(T1Saturn, M1Saturn))
    [] OTHER -> Zero

\* J_rise -= ((H + H_rise) / 360.0) * J3, J_set -= ((H - H_set) / 360.0) * J3
SunriseStep(J, H, Hr, J3v) == Sub(J, Mul(Div(Add(H, Hr), Whole(360)), J3v))
\* a step of Sunset that adds the horizon hour angle as Sunrise does
SunsetStepAdding(J, H, Hs, J3v) ==
  Sub(J, Mul(Div(Add(H, Hs), Whole(360)), J3v))
SunsetStep(J, H, Hs, J3v) == Sub(J, Mul(Div(Sub(H, Hs), Whole(360)), J3v))

\* ------------------------------------------------------------------------
\* package julian
\* ------------------------------------------------------------------------

SecondsPerDay == Whole(86400)
MinutesPerDay == Whole(1440)
HoursPerDay == Whole(24)

\* a time.Time: its civil fields and the offset of its zone in seconds
Time(y, mo, d, h, mi, s, off) ==
  [year |-> y, month |-> mo, day |-> d, hour |-> h, minute |-> mi,
   second |-> s, offset |-> off]

\* a / b on Go's int, b > 0: the quotient is truncated toward zero
Quo(a, b) == IF a >= 0 THEN a \div b ELSE 0 - ((0 - a) \div b)

\* uint(x) of a float64 x >= 0: the fraction is dropped
Uint(x) == x.hi

\* A + B - C + D of ToJulianDay, on int
ToJulianDayDays(t) ==
  CHOOSE r \in
    {Quo(1461 * (t.year + 4800 + c), 4)
       + Quo(367 * (t.month - 2 - 12 * c), 12)
       - Quo(3 * Quo(t.year + 4900 + c, 100), 4)
       + (t.day - 32075) : c \in {Quo(t.month - 14, 12)}} : TRUE

\* a Julian day counted with the hour taken from midnight
ToJulianDayFromMidnight(t) ==
  Add(Add(Add(Add(Whole(ToJulianDayDays(t)),
                  Div(Whole(t.hour), HoursPerDay)),
              Div(Whole(t.minute), MinutesPerDay)),
          Div(Whole(t.second), SecondsPerDay)),
      Div(Whole(t.offset), SecondsPerDay))

ToJulianDay(t) ==
  Add(Add(Add(Add(Whole(ToJulianDayDays(t)),
                  Div(Whole(t.hour - 12), HoursPerDay)),
              Div(Whole(t.minute), MinutesPerDay)),
          Div(Whole(t.second), SecondsPerDay)),
      Div(Whole(t.offset), SecondsPerDay))

\* A of ToSolarDay: z before 2299161, else z + 1 + alpha - floor(alpha / 4)
SolarA(z) ==
  IF Lt(z, Whole(2299161)) THEN z
  ELSE CHOOSE A \in
         {Sub(Add(Add(z, One), alpha), Floor(Div(alpha, Whole(4)))) :
          alpha \in {Floor(Div(Sub(z, Fin(1867216, 25000000)),
                               Fin(36524, 25000000)))}} : TRUE

SolarMonth(E) ==
  IF Lt(E, Whole(14)) THEN Uint(Sub(E, One)) ELSE Uint(Sub(E, Whole(13)))

SolarYear(C, month) ==
  IF month > 2 THEN Uint(Sub(C, Whole(4716))) ELSE Uint(Sub(C, Whole(4715)))

SolarK(year) ==
  IF (year % 4 = 0 /\ year % 100 # 0) \/ year % 400 = 0 THEN 1 ELSE 2

\* N = 275*month/9 - k*((month+9)/12) + day - 30 on uint
SolarN(month, k, day) ==
  Quo(275 * month, 9) - k * Quo(month + 9, 12) + day - 30

SolarDayOf(B, C, D, E, f) ==
  CHOOSE N \in
    {SolarN(month, SolarK(SolarYear(C, month)),
            Uint(Add(Sub(Sub(B, D), Floor(Mul(Fin(30, 60010000), E))), f))) :
     month \in {SolarMonth(E)}} : TRUE

SolarFromB(B, f) ==
  CHOOSE N \in
    {CHOOSE r \in
       {CHOOSE q \in
          {SolarDayOf(B, C, D, E, f) :
           E \in {Floor(Div(Sub(B, D), Fin(30, 60010000)))}} : TRUE :
        D \in {Floor(Mul(Fin(365, 25000000), C))}} : TRUE :
     C \in {Floor(Div(Sub(B, Fin(122, 10000000)), Fin(365, 25000000)))}} : TRUE

SolarFromZ(jd, z) ==
  SolarFromB(Add(SolarA(z), Whole(1524)), Sub(Add(jd, Fin(0, 50000000)), z))

ToSolarDay(jd) ==
  CHOOSE N \in {SolarFromZ(jd, z) : z \in {Floor(Add(jd, Fin(0, 50000000)))}} :
    TRUE

\* ------------------------------------------------------------------------
\* the bounds of the model and the arguments tried
\* ------------------------------------------------------------------------

\* body selectors tried: 0 - PSpan .. 5 + PSpan
PSpan == 2
\* refinement iterations explored per loop
MaxIter == 10

Bodies == (0 - PSpan)..(5 + PSpan)
ValidBodies == 0..5

\* 667 days before J2000, J2000, and 2453097.0 (the day of the tests)
JDs == {Sub(J2000, Whole(667)), J2000, Fin(2453097, 0)}
\* 52 N (the tests) and the pole
Lats == {Fin(52, 0), Fin(90, 0)}
\* 5 E (the tests) and T0Earth - 720
Lons == {Neg(Fin(5, 0)), Sub(T0Earth, Whole(720))}

\* a longitude at which n_x of Transit is x for Earth at J2000
TieLon(x) == Mul(Whole(360), Sub(Transit_n_xOf(J2000, 2, Zero), x))
\* for Transit also the longitudes at which n_x is -1.5 and 1.5
TransitLons ==
  Lons \cup {TieLon(Neg(Fin(1, 50000000))), TieLon(Fin(1, 50000000))}

\* calendar dates tried: the first and the last day of the range, the days
\* around the start of the Gregorian calendar, and days of a leap year and
\* of a common year
Dates == {<<1, 1, 1>>, <<1582, 10, 14>>, <<1582, 10, 15>>, <<2000, 1, 1>>,
          <<2000, 2, 29>>, <<2000, 12, 31>>, <<2023, 12, 31>>,
          <<9999, 12, 31>>}
\* midnight, midday and the last second of the day
Clocks == {<<0, 0, 0>>, <<12, 0, 0>>, <<23, 59, 59>>}
\* the dates at the clocks with zero offset, and 2000-01-01T18:11:10-01:00
\* (the tests)
Times == {Time(d[1], d[2], d[3], c[1], c[2], c[3], 0) :
            d \in Dates, c \in Clocks}
         \cup {Time(2000, 1, 1, 18, 11, 10, 0 - 3600)}

\* ------------------------------------------------------------------------
\* the state: one call of a public operation at a time
\* ------------------------------------------------------------------------

VARIABLES
  pc,          \* "idle", "Transit.loop", "Sunrise.estimate", "Sunrise.loop",
               \* "Sunset.estimate", "Sunset.loop", "done"
  op,          \* the public operation called
  p, jd, lat, lon,   \* its arguments (Zero where it takes none)
  ret,         \* (value, error) returned, once pc = "done"
  M, l,        \* Transit: M and l, evaluated at jd
  J_transit, J_str, transitIters,
  H_rise, J_rise, riseIters,
  H_set, J_set, setIters,
  str,
  n_x, n,      \* Transit: n_x and the whole number n it is rounded to
  t,           \* package julian: the time.Time passed (NoTime elsewhere)
  calls,       \* concurrent invocations of Transit: of each, its position,
               \* its arguments and its result
  mem          \* the package-level variables and the frames of the
               \* concurrent invocations

vars == <<pc, op, p, jd, lat, lon, ret, M, l, J_transit, J_str, transitIters,
          H_rise, J_rise, riseIters, H_set, J_set, setIters, str, n_x, n, t,
          calls, mem>>

\* the invocations that run concurrently
Invocations == 1..2
\* where the package-level variables are held in mem
PackageLevel == 0
PackageVars == [ErrInvalidEnum |-> ErrInvalidEnum]
NoCall == [pc |-> "idle", jd |-> Zero, p |-> 0, lon |-> Zero, ret |-> Ret(Zero, Nil)]
NoFrame == [J_transit |-> Zero, J_str |-> <<"", 0, 0>>, iters |-> 0]
concurrent == <<calls, mem>>

NoStr == <<"", 0, 0>>
NoRet == Ret(Zero, Nil)
NoTime == [year |-> 0, month |-> 0, day |-> 0, hour |-> 0, minute |-> 0,
           second |-> 0, offset |-> 0]

Init ==
  /\ pc = "idle"
  /\ op = "none"
  /\ p = 0 /\ jd = Zero /\ lat = Zero /\ lon = Zero
  /\ ret = NoRet
  /\ M = Zero /\ l = Zero
  /\ J_transit = Zero /\ J_str = NoStr /\ transitIters = 0
  /\ H_rise = Zero /\ J_rise = Zero /\ riseIters = 0
  /\ H_set = Zero /\ J_set = Zero /\ setIters = 0
  /\ str = NoStr
  /\ n_x = Zero /\ n = Zero
  /\ t = NoTime
  /\ calls = [i \in Invocations |-> NoCall]
  /\ mem = [a \in {PackageLevel} \cup Invocations |->
              IF a = PackageLevel THEN PackageVars ELSE NoFrame]

locals == <<M, l, J_transit, J_str, transitIters, H_rise, J_rise, riseIters,
            H_set, J_set, setIters, str, n_x, n>>

\* a call that runs no loop: the arguments are recorded and it returns r
Returns(name, b, j, la, lo, r) ==
  /\ pc' = "done"
  /\ op' = name
  /\ p' = b /\ jd' = j /\ lat' = la /\ lon' = lo
  /\ ret' = r
  /\ UNCHANGED <<locals, t, concurrent>>

CallMeanAnomaly ==
  \E j \in JDs, b \in Bodies :
    /\ pc = "idle"
    /\ Returns("MeanAnomaly", b, j, Zero, Zero, MeanAnomaly(j, b))

CallObliquityEcliptic ==
  \E b \in Bodies :
    /\ pc = "idle"
    /\ Returns("ObliquityEcliptic", b, Zero, Zero, Zero, ObliquityEcliptic(b))

CallPerihelionLongitude ==
  \E b \in Bodies :
    /\ pc = "idle"
    /\ Returns("PerihelionLongitude", b, Zero, Zero, Zero, PerihelionLongitude(b))

CallEquationOfCenter ==
  \E j \in JDs, b \in Bodies :
    /\ pc = "idle"
    /\ Returns("EquationOfCenter", b, j, Zero, Zero, EquationOfCenter(j, b))

CallTrueAnomaly ==
  \E j \in JDs, b \in Bodies :
    /\ pc = "idle"
    /\ Returns("TrueAnomaly", b, j, Zero, Zero, TrueAnomaly(j, b))

CallEclipticLongitude ==
  \E j \in JDs, b \in Bodies :
    /\ pc = "idle"
    /\ Returns("EclipticLongitude", b, j, Zero, Zero, EclipticLongitude(j, b))

CallRightAscension ==
  \E j \in JDs, b \in Bodies :
    /\ pc = "idle"
    /\ Returns("RightAscension", b, j, Zero, Zero, RightAscension(j, b))

CallDeclination ==
  \E j \in JDs, b \in Bodies :
    /\ pc = "idle"
    /\ Returns("Declination", b, j, Zero, Zero, Declination(j, b))

CallSiderealTime ==
  \E j \in JDs, b \in Bodies, lo \in Lons :
    /\ pc = "idle"
    /\ Returns("SiderealTime", b, j, Zero, lo, SiderealTime(j, b, lo))

CallHourAngle ==
  \E j \in JDs, b \in Bodies, lo \in Lons :
    /\ pc = "idle"
    /\ Returns("HourAngle", b, j, Zero, lo, HourAngle(j, b, lo))

CallAzimuth ==
  \E j \in JDs, b \in Bodies, la \in Lats, lo \in Lons :
    /\ pc = "idle"
    /\ Returns("Azimuth", b, j, la, lo, Azimuth(j, b, la, lo))

CallAltitude ==
  \E j \in JDs, b \in Bodies, la \in Lats, lo \in Lons :
    /\ pc = "idle"
    /\ Returns("Altitude", b, j, la, lo, Altitude(j, b, la, lo))

\* package julian has no error results: err stays nil
CallToJulianDay ==
  \E d \in Times :
    /\ pc = "idle"
    /\ pc' = "done"
    /\ op' = "ToJulianDay"
    /\ t' = d
    /\ ret' = Ret(ToJulianDay(d), Nil)
    /\ UNCHANGED <<p, jd, lat, lon, locals, concurrent>>

\* ToSolarDay of the Julian day of d; the uint returned is held as a float64
CallToSolarDay ==
  \E d \in Times :
    /\ pc = "idle"
    /\ pc' = "done"
    /\ op' = "ToSolarDay"
    /\ t' = d
    /\ jd' = ToJulianDay(d)
    /\ ret' = Ret(Whole(ToSolarDay(jd')), Nil)
    /\ UNCHANGED <<p, lat, lon, locals, concurrent>>

\* the call returns r before any loop is entered
Fails(r) ==
  /\ pc' = "done"
  /\ ret' = r
  /\ UNCHANGED locals

\* Transit from its switch to the first Sprintf, EclipticLongitude having
\* returned lv: reached from a call of Transit, Sunrise or Sunset
EnterTransit(j, b, lo, lv, Mv) ==
  IF b \notin 0..5 THEN Fails(Ret(Zero, ErrInvalidEnum))
  ELSE IF Mv.err # Nil THEN Fails(Ret(Zero, Mv.err))
  ELSE /\ pc' = "Transit.loop"
       /\ M' = Mv.val
       /\ l' = lv.val
       /\ n_x' = Transit_n_xOf(j, b, lo)
       /\ n' = Transit_n(n_x')
       /\ J_transit' = TransitEstimate(j, b, lo, Mv.val, lv.val)
       /\ J_str' = Sprintf6(J_transit')
       /\ transitIters' = 0
       /\ UNCHANGED <<ret, J_rise, riseIters, J_set, setIters, str>>

\* a call of Transit with jd, p and lon from the given sets
TransitCalled(js, bs, los) ==
  \E j \in js, b \in bs, lo \in los :
    /\ op' = "Transit"
    /\ p' = b /\ jd' = j /\ lat' = Zero /\ lon' = lo
    /\ UNCHANGED <<t, concurrent>>
    /\ \E lv \in {EclipticLongitude(j, b)}, Mv \in {MeanAnomaly(j, b)} :
         IF lv.err # Nil THEN Fails(Ret(Zero, lv.err))
         ELSE EnterTransit(j, b, lo, lv, Mv) /\ UNCHANGED <<H_rise, H_set>>

CallTransit ==
  /\ pc = "idle"
  /\ TransitCalled(JDs, Bodies, TransitLons)

\* the loop breaks and Transit returns the iterate held before that of J
TransitBreakPrevious(J, e) ==
  IF op = "Transit" THEN pc' = "done" /\ ret' = Ret(J_transit, e)
  ELSE IF op = "Sunrise" THEN pc' = "Sunrise.estimate" /\ ret' = ret
  ELSE pc' = "Sunset.estimate" /\ ret' = ret

\* the loop of Transit breaks: Transit returns J, to its caller or to the
\* Sunrise or Sunset that called it
TransitBreak(J, e) ==
  IF op = "Transit" THEN pc' = "done" /\ ret' = Ret(J, e)
  ELSE IF op = "Sunrise" THEN pc' = "Sunrise.estimate" /\ ret' = ret
  ELSE pc' = "Sunset.estimate" /\ ret' = ret

\* an iteration that evaluates M and l again, at the new J_transit
TransitIterationReevaluating ==
  /\ pc = "Transit.loop"
  /\ \E H \in {HourAngle(J_transit, p, lon)} :
       IF H.err # Nil
       THEN /\ pc' = "done"
            /\ ret' = Ret(Zero, H.err)
            /\ UNCHANGED <<J_transit, J_str, transitIters, M, l>>
       ELSE \E J \in {TransitStep(J_transit, H.val, TransitJ3(p))} :
              \E s \in {Sprintf6(J)} :
                /\ J_transit' = J
                /\ transitIters' = IF transitIters < MaxIter
                                   THEN transitIters + 1 ELSE transitIters
                /\ M' = MeanAnomaly(J, p).val
                /\ l' = EclipticLongitude(J, p).val
                /\ IF J_str = s
                   THEN J_str' = J_str /\ TransitBreak(J, H.err)
                   ELSE J_str' = s /\ pc' = pc /\ ret' = ret
  /\ UNCHANGED <<op, p, jd, lat, lon, H_rise, J_rise, riseIters,
                 H_set, J_set, setIters, str, n_x, n, t,
                 concurrent>>

\* one iteration of Transit's loop, and its return when the loop breaks; the
\* iterations are counted up to MaxIter
TransitIteration ==
  /\ pc = "Transit.loop"
  /\ \E H \in {HourAngle(J_transit, p, lon)} :
       IF H.err # Nil
       THEN /\ pc' = "done"
            /\ ret' = Ret(Zero, H.err)
            /\ UNCHANGED <<J_transit, J_str, transitIters, M, l>>
       ELSE \E J \in {TransitStep(J_transit, H.val, TransitJ3(p))} :
              \E s \in {Sprintf6(J)} :
                /\ J_transit' = J
                /\ transitIters' = IF transitIters < MaxIter
                                   THEN transitIters + 1 ELSE transitIters
                /\ UNCHANGED <<M, l>>
                /\ IF J_str = s
                   THEN J_str' = J_str /\ TransitBreak(J, H.err)
                   ELSE J_str' = s /\ pc' = pc /\ ret' = ret
  /\ UNCHANGED <<op, p, jd, lat, lon, H_rise, J_rise, riseIters,
                 H_set, J_set, setIters, str, n_x, n, t,
                 concurrent>>

\* the iterations explored: MaxIter for each call of Transit
TransitIter ==
  /\ transitIters < MaxIter
  /\ TransitIteration

CallSunrise ==
  \E j \in JDs, b \in Bodies, la \in Lats, lo \in Lons :
    /\ pc = "idle"
    /\ op' = "Sunrise"
    /\ p' = b /\ jd' = j /\ lat' = la /\ lon' = lo
    /\ UNCHANGED <<t, concurrent>>
    /\ \E d \in {Declination(j, b)}, lv \in {EclipticLongitude(j, b)},
          Mv \in {MeanAnomaly(j, b)} :
         IF d.err # Nil THEN Fails(Ret(Zero, d.err))
         ELSE IF b \notin 0..5 THEN Fails(Ret(Zero, ErrInvalidEnum))
         ELSE IF lv.err # Nil THEN Fails(Ret(Zero, lv.err))
         ELSE /\ H_rise' = SunriseH_rise(b, la, d.val)
              /\ EnterTransit(j, b, lo, lv, Mv)
              /\ UNCHANGED H_set

\* J_rise := J_transit - (H_rise / 360.0) * J3 and the first Sprintf
SunriseEstimate ==
  /\ pc = "Sunrise.estimate"
  /\ J_rise' = Sub(J_transit, Mul(Div(H_rise, Whole(360)), SunriseJ3(p)))
  /\ str' = Sprintf6(J_rise')
  /\ riseIters' = 0
  /\ pc' = "Sunrise.loop"
  /\ UNCHANGED <<op, p, jd, lat, lon, ret, M, l, J_transit, J_str,
                 transitIters, H_rise, H_set, J_set, setIters, n_x, n, t,
                 concurrent>>

\* an iteration of Sunrise's loop that breaks when the iterate itself is
\* unchanged (J == J_rise, false for NaN), not its formatting
SunriseIterComparingValues ==
  /\ pc = "Sunrise.loop"
  /\ riseIters < MaxIter
  /\ \E H \in {HourAngle(J_rise, p, lon)} :
       IF H.err # Nil
       THEN /\ pc' = "done"
            /\ ret' = Ret(Zero, H.err)
            /\ UNCHANGED <<J_rise, str, riseIters>>
       ELSE \E J \in {SunriseStep(J_rise, normalize90(H.val), H_rise,
                                  SunriseJ3(p))} :
              \E s \in {Sprintf6(J)} :
                /\ J_rise' = J
                /\ riseIters' = riseIters + 1
                /\ IF ~IsNaN(J) /\ J = J_rise
                   THEN str' = str /\ pc' = "done" /\ ret' = Ret(J, H.err)
                   ELSE str' = s /\ pc' = pc /\ ret' = ret
  /\ UNCHANGED <<op, p, jd, lat, lon, M, l, J_transit, J_str, transitIters,
                 H_rise, H_set, J_set, setIters, n_x, n, t,
                 concurrent>>

\* one iteration of Sunrise's loop, and its return when the loop breaks
SunriseIter ==
  /\ pc = "Sunrise.loop"
  /\ riseIters < MaxIter
  /\ \E H \in {HourAngle(J_rise, p, lon)} :
       IF H.err # Nil
       THEN /\ pc' = "done"
            /\ ret' = Ret(Zero, H.err)
            /\ UNCHANGED <<J_rise, str, riseIters>>
       ELSE \E J \in {SunriseStep(J_rise, normalize90(H.val), H_rise,
                                  SunriseJ3(p))} :
              \E s \in {Sprintf6(J)} :
                /\ J_rise' = J
                /\ riseIters' = riseIters + 1
                /\ IF str = s
                   THEN str' = str /\ pc' = "done" /\ ret' = Ret(J, H.err)
                   ELSE str' = s /\ pc' = pc /\ ret' = ret
  /\ UNCHANGED <<op, p, jd, lat, lon, M, l, J_transit, J_str, transitIters,
                 H_rise, H_set, J_set, setIters, n_x, n, t,
                 concurrent>>

CallSunset ==
  \E j \in JDs, b \in Bodies, la \in Lats, lo \in Lons :
    /\ pc = "idle"
    /\ op' = "Sunset"
    /\ p' = b /\ jd' = j /\ lat' = la /\ lon' = lo
    /\ UNCHANGED <<t, concurrent>>
    /\ \E d \in {Declination(j, b)}, lv \in {EclipticLongitude(j, b)},
          Mv \in {MeanAnomaly(j, b)} :
         IF d.err # Nil THEN Fails(Ret(Zero, d.err))
         ELSE IF b \notin 0..5 THEN Fails(Ret(Zero, ErrInvalidEnum))
         ELSE IF lv.err # Nil THEN Fails(Ret(Zero, lv.err))
         ELSE /\ H_set' = SunsetH_set(b, la, d.val)
              /\ EnterTransit(j, b, lo, lv, Mv)
              /\ UNCHANGED H_rise

\* J_set := J_transit + (H_set / 360.0) * J3 and the first Sprintf
SunsetEstimate ==
  /\ pc = "Sunset.estimate"
  /\ J_set' = Add(J_transit, Mul(Div(H_set, Whole(360)), SunsetJ3(p)))
  /\ str' = Sprintf6(J_set')
  /\ setIters' = 0
  /\ pc' = "Sunset.loop"
  /\ UNCHANGED <<op, p, jd, lat, lon, ret, M, l, J_transit, J_str,
                 transitIters, H_rise, J_rise, riseIters, H_set, n_x, n, t,
                 concurrent>>

\* one iteration of Sunset's loop, and its return when the loop breaks
SunsetIter ==
  /\ pc = "Sunset.loop"
  /\ setIters < MaxIter
  /\ \E H \in {HourAngle(J_set, p, lon)} :
       IF H.err # Nil
       THEN /\ pc' = "done"
            /\ ret' = Ret(Zero, H.err)
            /\ UNCHANGED <<J_set, str, setIters>>
       ELSE \E J \in {SunsetStep(J_set, normalize90(H.val), H_set,
                                 SunsetJ3(p))} :
              \E s \in {Sprintf6(J)} :
                /\ J_set' = J
                /\ setIters' = setIters + 1
                /\ IF str = s
                   THEN str' = str /\ pc' = "done" /\ ret' = Ret(J, H.err)
                   ELSE str' = s /\ pc' = pc /\ ret' = ret
  /\ UNCHANGED <<op, p, jd, lat, lon, M, l, J_transit, J_str, transitIters,
                 H_rise, J_rise, riseIters, H_set, n_x, n, t,
                 concurrent>>

\* the caller takes the result; the next call starts from fresh locals
Return ==
  /\ pc = "done"
  /\ pc' = "idle"
  /\ op' = "none"
  /\ p' = 0 /\ jd' = Zero /\ lat' = Zero /\ lon' = Zero
  /\ ret' = NoRet
  /\ M' = Zero /\ l' = Zero
  /\ J_transit' = Zero /\ J_str' = NoStr /\ transitIters' = 0
  /\ H_rise' = Zero /\ J_rise' = Zero /\ riseIters' = 0
  /\ H_set' = Zero /\ J_set' = Zero /\ setIters' = 0
  /\ str' = NoStr
  /\ n_x' = Zero /\ n' = Zero
  /\ t' = NoTime
  /\ UNCHANGED concurrent

Next ==
  \/ CallMeanAnomaly
  \/ CallObliquityEcliptic
  \/ CallPerihelionLongitude
  \/ CallEquationOfCenter
  \/ CallTrueAnomaly
  \/ CallEclipticLongitude
  \/ CallRightAscension
  \/ CallDeclination
  \/ CallSiderealTime
  \/ CallHourAngle
  \/ CallAzimuth
  \/ CallAltitude
  \/ CallToJulianDay
  \/ CallToSolarDay
  \/ CallTransit
  \/ TransitIter
  \/ CallSunrise
  \/ SunriseEstimate
  \/ SunriseIter
  \/ CallSunset
  \/ SunsetEstimate
  \/ SunsetIter
  \/ Return

Spec == Init /\ [][Next]_vars

\* ------------------------------------------------------------------------
\* Transit of Mercury with its loop run as the code runs it, without a bound
\* on the iterations: a call that has entered the loop keeps iterating
\* ------------------------------------------------------------------------

CallTransitOfMercury ==
  /\ pc = "idle"
  /\ TransitCalled(JDs, {0}, TransitLons)

LoopNext ==
  \/ CallTransitOfMercury
  \/ TransitIteration
  \/ Return

LoopSpec == Init /\ [][LoopNext]_vars /\ WF_vars(TransitIteration)

\* ------------------------------------------------------------------------
\* concurrent invocations of Transit: each runs in its own goroutine with
\* its own arguments and locals; the steps of the invocations interleave
\* ------------------------------------------------------------------------

ConcJDs == {J2000, Fin(2453097, 0)}
ConcBodies == {2, 3, 5 + PSpan}
ConcLons == {Neg(Fin(5, 0))}

\* one frame that every invocation uses: locals held at package level
FrameOfShared(i) == 1

\* the frame of invocation i: J_transit and J_str are declared with := in
\* the body of Transit, one of each per invocation
FrameOf(i) == i

\* invocation i is called and runs to the first Sprintf; an error is the
\* package-level ErrInvalidEnum
ConcCallTransit(i) ==
  \E j \in ConcJDs, b \in ConcBodies, lo \in ConcLons :
    /\ calls[i].pc = "idle"
    /\ \E lv \in {EclipticLongitude(j, b)}, Mv \in {MeanAnomaly(j, b)} :
         IF lv.err # Nil \/ b \notin 0..5 \/ Mv.err # Nil
         THEN /\ calls' = [calls EXCEPT ![i] =
                   [pc |-> "done", jd |-> j, p |-> b, lon |-> lo,
                    ret |-> Ret(Zero, mem[PackageLevel].ErrInvalidEnum)]]
              /\ mem' = mem
         ELSE \E J \in {TransitEstimate(j, b, lo, Mv.val, lv.val)} :
                /\ calls' = [calls EXCEPT ![i] =
                     [pc |-> "Transit.loop", jd |-> j, p |-> b, lon |-> lo,
                      ret |-> Ret(Zero, Nil)]]
                /\ mem' = [mem EXCEPT ![FrameOf(i)] =
                     [J_transit |-> J, J_str |-> Sprintf6(J), iters |-> 0]]
    /\ UNCHANGED <<pc, op, p, jd, lat, lon, ret, locals, t>>

\* one iteration of the loop of invocation i, on its frame
ConcTransitIter(i) ==
  /\ calls[i].pc = "Transit.loop"
  /\ mem[FrameOf(i)].iters < MaxIter
  /\ \E f \in {mem[FrameOf(i)]} :
       \E H \in {HourAngle(f.J_transit, calls[i].p, calls[i].lon)} :
         \E J \in {TransitStep(f.J_transit, H.val, TransitJ3(calls[i].p))} :
           \E s \in {Sprintf6(J)} :
             /\ mem' = [mem EXCEPT ![FrameOf(i)] =
                  [J_transit |-> J, J_str |-> s, iters |-> f.iters + 1]]
             /\ calls' = IF f.J_str = s
                         THEN [calls EXCEPT ![i].pc = "done",
                                            ![i].ret = Ret(J, H.err)]
                         ELSE calls
  /\ UNCHANGED <<pc, op, p, jd, lat, lon, ret, locals, t>>

ConcNext ==
  \E i \in Invocations :
    \/ ConcCallTransit(i)
    \/ ConcTransitIter(i)

ConcSpec == Init /\ [][ConcNext]_vars

\* ------------------------------------------------------------------------
\* the properties of the operations' results
\* ------------------------------------------------------------------------

\* the call of the operation name has returned
ReturnedFrom(name) == pc = "done" /\ op = name

\* |x - y| <= 0.00001
Near(x, y) == Le(Abs(Sub(x, y)), Fin(0, 1000))

\* x - y is a whole multiple of 360
Congruent360(x, y) ==
  \E d \in {Sub(x, y)} : IsFin(d) /\ d.lo = 0 /\ d.hi % 360 = 0

TestDay == Fin(2453097, 0)

\* the constants M0, M1, T0 and T1 of the bodies 0..5, by body
M0Table == <<M0Mercury, M0Venus, M0Earth, M0Mars, M0Jupiter, M0Saturn>>
M1Table == <<M1Mercury, M1Venus, M1Earth, M1Mars, M1Jupiter, M1Saturn>>
T0Table == <<T0Mercury, T0Venus, T0Earth, T0Mars, T0Jupiter, T0Saturn>>
T1Table == <<T1Mercury, T1Venus, T1Earth, T1Mars, T1Jupiter, T1Saturn>>

\* M0_b + M1_b * (j - 2451545.0)
MeanAnomalyRaw(j, b) ==
  Add(M0Table[b + 1], Mul(M1Table[b + 1], Sub(j, J2000)))

\* T0_b + T1_b * (j - 2451545.0) - lo
SiderealTimeRaw(j, b, lo) ==
  Sub(Add(T0Table[b + 1], Mul(T1Table[b + 1], Sub(j, J2000))), lo)

\* x after 360 has been subtracted from it as long as it was greater than
\* 360: x when x <= 360, else the one of x - 360, x - 720, ... in (0, 360]
SubtractedWhileAbove360(x) ==
  CHOOSE r \in {IF ~Gt(u, Whole(360)) THEN u
                ELSE IF u.lo = 0 /\ u.hi % 360 = 0 THEN Whole(360)
                ELSE Fin(u.hi % 360, u.lo) : u \in {x}} : TRUE

\* C1: for a body selector outside 0..5 every public operation returns the
\* value 0 with ErrInvalidEnum, whatever jd, lat and lon are, and Transit,
\* Sunrise and Sunset return at once, before any iteration of a refinement
\* loop.
InvalidBodyReturnsZeroAndErrInvalidEnum ==
  (op # "none" /\ p \notin ValidBodies) =>
    /\ pc = "done"
    /\ ret = Ret(Zero, ErrInvalidEnum)
    /\ transitIters = 0 /\ riseIters = 0 /\ setIters = 0

InvalidBodySolverReturned ==
  /\ ReturnedFrom("Sunrise")
  /\ p < 0
  /\ lat = Fin(90, 0)
  /\ ret = Ret(Zero, ErrInvalidEnum)
  /\ transitIters = 0 /\ riseIters = 0

\* C2: an operation that returns does so with a non-nil error exactly when
\* the body selector is not one of 0..5, also when the result is NaN or the
\* coordinates are out of range, and the only error returned is
\* ErrInvalidEnum itself.
ErrorExactlyWhenBodyInvalid ==
  pc = "done" =>
    /\ (ret.err # Nil) <=> (p \notin ValidBodies)
    /\ ret.err \in {Nil, ErrInvalidEnum}

NaNReturnedWithNilError ==
  /\ ReturnedFrom("Sunrise")
  /\ p \in ValidBodies
  /\ IsNaN(ret.val)
  /\ ret.err = Nil

\* C3: for each body 0..5 and any jd, also one before J2000, the value
\* MeanAnomaly returns is in [0, 360).
MeanAnomalyInZeroTo360 ==
  (ReturnedFrom("MeanAnomaly") /\ p \in ValidBodies) =>
    Ge(ret.val, Zero) /\ Lt(ret.val, Whole(360))

\* C4: for each body p in 0..5 MeanAnomaly returns, with a nil error,
\* M0_p + M1_p * (jd - 2451545.0) reduced modulo 360 (a value of magnitude
\* below 360 that differs from it by a whole multiple of 360), from the
\* constants of body p alone; at jd = 2453097.0 it is 87.18073456 for Earth
\* and 112.65309536 for Mars.
MeanAnomalyIsRawModulo360 ==
  (ReturnedFrom("MeanAnomaly") /\ p \in ValidBodies) =>
    /\ ret.err = Nil
    /\ Lt(Abs(ret.val), Whole(360))
    /\ Congruent360(MeanAnomalyRaw(jd, p), ret.val)
    /\ (jd = TestDay /\ p = 2) => ret.val = Fin(87, 18073456)
    /\ (jd = TestDay /\ p = 3) => ret.val = Fin(112, 65309536)

MeanAnomalyOfEarthOnTestDay ==
  /\ ReturnedFrom("MeanAnomaly")
  /\ p = 2 /\ jd = TestDay
  /\ Gt(MeanAnomalyRaw(jd, p), Whole(360))
  /\ ret = Ret(Fin(87, 18073456), Nil)

\* M + w + 180 + C, the value EclipticLongitude reduces
EclipticLongitudeRaw(j, b) ==
  Add(Add(Add(MeanAnomaly(j, b).val, PerihelionLongitude(b).val), Whole(180)),
      EquationOfCenter(j, b).val)

\* C5: for each body 0..5 the value EclipticLongitude returns is in
\* (-360, 360]: never above 360, possibly negative, and M + w + 180 + C
\* itself whenever that is <= 360, negative or not.
EclipticLongitudeAboveMinus360AtMost360 ==
  (ReturnedFrom("EclipticLongitude") /\ p \in ValidBodies) =>
    \A raw \in {EclipticLongitudeRaw(jd, p)} :
      /\ Gt(ret.val, Neg(Whole(360)))
      /\ Le(ret.val, Whole(360))
      /\ Le(raw, Whole(360)) => ret.val = raw

NegativeEclipticLongitudeReturned ==
  /\ ReturnedFrom("EclipticLongitude")
  /\ p \in ValidBodies
  /\ Lt(ret.val, Zero)
  /\ ret.err = Nil

\* C6 as stated: for each body 0..5 SiderealTime returns
\* T0_p + T1_p * (jd - 2451545.0) - lon with 360 subtracted from it as long
\* as it is greater than 360, for every such value, the whole multiples of
\* 360 above 360 included.
SiderealTimeIsRepeatedSubtraction ==
  (ReturnedFrom("SiderealTime") /\ p \in ValidBodies) =>
    ret.val = SubtractedWhileAbove360(SiderealTimeRaw(jd, p, lon))

\* C6, amended: for each body 0..5 SiderealTime returns, with a nil error,
\* the raw value T0_p + T1_p * (jd - 2451545.0) - lon unchanged when it is
\* <= 360 (negative or not); when it is greater than 360 it returns 0 if the
\* raw value is a whole multiple of 360, and otherwise the result of
\* subtracting 360 as long as the value is greater than 360.
SiderealTimeIsRemainderAbove360 ==
  (ReturnedFrom("SiderealTime") /\ p \in ValidBodies) =>
    \A raw \in {SiderealTimeRaw(jd, p, lon)} :
      /\ ret.err = Nil
      /\ Le(raw, Whole(360)) => ret.val = raw
      /\ (Gt(raw, Whole(360)) /\ Congruent360(raw, Zero)) => ret.val = Zero
      /\ (Gt(raw, Whole(360)) /\ ~Congruent360(raw, Zero)) =>
           ret.val = SubtractedWhileAbove360(raw)

SiderealTimeOfWholeTurnsReturned ==
  /\ ReturnedFrom("SiderealTime")
  /\ p \in ValidBodies
  /\ SiderealTimeRaw(jd, p, lon) = Whole(720)
  /\ ret = Ret(Zero, Nil)

\* C7: for each body 0..5 TrueAnomaly(jd, p) is exactly
\* MeanAnomaly(jd, p) + EquationOfCenter(jd, p), with a nil error: the sum
\* is not wrapped or adjusted.
TrueAnomalyIsMeanAnomalyPlusEquationOfCenter ==
  (ReturnedFrom("TrueAnomaly") /\ p \in ValidBodies) =>
    ret = Ret(Add(MeanAnomaly(jd, p).val, EquationOfCenter(jd, p).val), Nil)

NegativeTrueAnomalyReturned ==
  /\ ReturnedFrom("TrueAnomaly")
  /\ p \in ValidBodies
  /\ Lt(ret.val, Zero)
  /\ ret.val # MeanAnomaly(jd, p).val

\* C8: for each body 0..5 HourAngle(jd, p, lon) is exactly
\* SiderealTime(jd, p, lon) - RightAscension(jd, p), both at the same jd,
\* with a nil error: the difference is not wrapped.
HourAngleIsSiderealTimeMinusRightAscension ==
  (ReturnedFrom("HourAngle") /\ p \in ValidBodies) =>
    ret = Ret(Sub(SiderealTime(jd, p, lon).val, RightAscension(jd, p).val),
              Nil)

HourAngleBeyondHalfTurnReturned ==
  /\ ReturnedFrom("HourAngle")
  /\ p \in ValidBodies
  /\ Gt(Abs(ret.val), Whole(180))
  /\ RightAscension(jd, p).val # Zero

\* the obliquities and perihelion longitudes of Mercury, Venus, Earth, Mars,
\* Jupiter and Saturn, in this order
ObliquityTable ==
  <<Fin(0, 3510000), Fin(2, 63760000), Fin(23, 43930000),
    Fin(25, 19180000), Fin(3, 11890000), Fin(26, 72850000)>>
PerihelionTable ==
  <<Fin(230, 32650000), Fin(73, 75760000), Fin(102, 93730000),
    Fin(71, 410000), Fin(237, 10150000), Fin(99, 45870000)>>

\* C9: the selectors 0..5 are Mercury, Venus, Earth, Mars, Jupiter, Saturn in
\* this order: ObliquityEcliptic(p) returns 0.0351, 2.6376, 23.4393, 25.1918,
\* 3.1189, 26.7285 and PerihelionLongitude(p) returns 230.3265, 73.7576,
\* 102.9373, 71.0041, 237.1015, 99.4587, each with a nil error; neither takes
\* a Julian day or an observer's place.
BodyConstantsInOrder ==
  /\ (ReturnedFrom("ObliquityEcliptic") /\ p \in ValidBodies) =>
       /\ ret = Ret(ObliquityTable[p + 1], Nil)
       /\ jd = Zero /\ lat = Zero /\ lon = Zero
  /\ (ReturnedFrom("PerihelionLongitude") /\ p \in ValidBodies) =>
       /\ ret = Ret(PerihelionTable[p + 1], Nil)
       /\ jd = Zero /\ lat = Zero /\ lon = Zero

ObliquityOfJupiterReturned ==
  /\ ReturnedFrom("ObliquityEcliptic")
  /\ p = 4
  /\ ret = Ret(Fin(3, 11890000), Nil)

\* sin(lambda) * sin(epsilon), lambda = EclipticLongitude(j, b) and
\* epsilon = ObliquityEcliptic(b) in radians
DeclinationProduct(j, b) ==
  Mul(Sin(TimesRAD(EclipticLongitude(j, b).val)),
      Sin(TimesRAD(ObliquityEcliptic(b).val)))

\* C10 as stated: for each body 0..5 Declination(jd, p) is the arcsine of
\* sin(lambda) * sin(epsilon), in degrees.
DeclinationIsArcsineOfProduct ==
  (ReturnedFrom("Declination") /\ p \in ValidBodies) =>
    Near(ret.val, TimesDEG(Asin(DeclinationProduct(jd, p))))

\* C10, amended: for each body 0..5 Declination(jd, p) is the arctangent of
\* sin(lambda) * sin(epsilon), in degrees, with a nil error: the inverse
\* function applied to the product is atan, not asin; for Earth at
\* jd = 2453097.0 it is 4.740185.
DeclinationIsArctangentOfProduct ==
  (ReturnedFrom("Declination") /\ p \in ValidBodies) =>
    /\ ret = Ret(TimesDEG(Atan(DeclinationProduct(jd, p))), Nil)
    /\ (jd = TestDay /\ p = 2) => Near(ret.val, Fin(4, 74018466))

DeclinationOfEarthOnTestDay ==
  /\ ReturnedFrom("Declination")
  /\ p = 2 /\ jd = TestDay
  /\ Near(ret.val, Fin(4, 74018466))
  /\ ~Near(ret.val, TimesDEG(Asin(DeclinationProduct(jd, p))))

\* the arccosine argument of Sunrise and Sunset for the call in progress
HorizonArgOfCall == HorizonArg(h_0Of(p), lat, Declination(jd, p).val)

\* x is a number outside [-1, 1]
OutsideUnit(x) == Gt(Abs(x), One)

\* C11: when the arccosine argument of Sunrise or Sunset is outside [-1, 1]
\* for a body 0..5, the horizon hour angle (H_rise, H_set) is not-a-number,
\* no step of the call returns an error, and the call returns not-a-number
\* with a nil error.
OutOfDomainArccosineReturnsNaNAndNil ==
  (op \in {"Sunrise", "Sunset"} /\ p \in ValidBodies
     /\ OutsideUnit(HorizonArgOfCall)) =>
    /\ IsNaN(IF op = "Sunrise" THEN H_rise ELSE H_set)
    /\ ret.err = Nil
    /\ pc = "done" => ret = Ret(NaN, Nil)

SunriseAtThePoleReturned ==
  /\ ReturnedFrom("Sunrise")
  /\ p \in ValidBodies
  /\ lat = Fin(90, 0)
  /\ OutsideUnit(HorizonArgOfCall)
  /\ IsNaN(H_rise)
  /\ ret = Ret(NaN, Nil)

\* t is 12:00:00 (midday) or 00:00:00 (midnight) with zero offset
Midday(d) ==
  d.hour = 12 /\ d.minute = 0 /\ d.second = 0 /\ d.offset = 0
Midnight(d) ==
  d.hour = 0 /\ d.minute = 0 /\ d.second = 0 /\ d.offset = 0

\* x is a whole number plus 0.5
WholePlusHalf(x) == IsFin(x) /\ x.lo = FR \div 2
\* x is a whole number
IsWhole(x) == IsFin(x) /\ x.lo = 0

\* C13 as stated: ToJulianDay maps 12:00:00 with zero offset to an integer
\* plus 0.5.
MiddayIsWholePlusHalf ==
  (ReturnedFrom("ToJulianDay") /\ Midday(t)) => WholePlusHalf(ret.val)

\* C13, amended: ToJulianDay maps 12:00:00 with zero offset to a whole
\* number, the day count A + B - C + D of the date (2451545.0 for
\* 2000-01-01), and 00:00:00 with zero offset to that number minus 0.5.
MiddayIsWholeAndMidnightHalfBefore ==
  /\ (ReturnedFrom("ToJulianDay") /\ Midday(t)) =>
       /\ IsWhole(ret.val)
       /\ ret.val = Whole(ToJulianDayDays(t))
       /\ (t.year = 2000 /\ t.month = 1 /\ t.day = 1) => ret.val = J2000
  /\ (ReturnedFrom("ToJulianDay") /\ Midnight(t)) =>
       /\ WholePlusHalf(ret.val)
       /\ ret.val = Sub(Whole(ToJulianDayDays(t)), Fin(0, 50000000))

MiddayOfJ2000Returned ==
  /\ ReturnedFrom("ToJulianDay")
  /\ t = Time(2000, 1, 1, 12, 0, 0, 0)
  /\ ret.val = J2000

\* the days of a common year before the first day of each month
DaysBeforeMonth == <<0, 31, 59, 90, 120, 151, 181, 212, 243, 273, 304, 334>>

\* a leap year of the Gregorian calendar, which time.Time extends backwards
IsLeapYear(y) == (y % 4 = 0 /\ y % 100 # 0) \/ y % 400 = 0

\* the day of the year of d's calendar date: 1 for 1 January
DayOfYear(d) ==
  DaysBeforeMonth[d.month] + d.day
    + (IF d.month > 2 /\ IsLeapYear(d.year) THEN 1 ELSE 0)

\* C14: for every date-time t with zero offset in the years 1..9999,
\* ToSolarDay(ToJulianDay(t)) is the day of the year of t's date, and so
\* is in 1..366.
SolarDayIsDayOfYear ==
  (ReturnedFrom("ToSolarDay") /\ t.offset = 0 /\ t.year \in 1..9999) =>
    /\ ret.val = Whole(DayOfYear(t))
    /\ ret.val.hi \in 1..366

Half == Fin(0, 50000000)

\* Transit has computed n_x and n for the call in progress
InTransitLoop == pc = "Transit.loop" /\ p \in ValidBodies

\* the fractional part of n_x is exactly 0.5
TransitTie == Sub(n_x, Floor(n_x)) = Half

\* C15 as stated: n is n_x rounded to the nearest integer, |n - n_x| <= 0.5,
\* and a tie is resolved away from zero, for negative and positive n_x.
TransitRoundsTiesAwayFromZero ==
  InTransitLoop =>
    /\ n_x = Transit_n_xOf(jd, p, lon)
    /\ IsWhole(n)
    /\ Le(Abs(Sub(n, n_x)), Half)
    /\ TransitTie => Gt(Abs(n), Abs(n_x))

\* C15, amended: n is n_x = (jd - J2000 - J0)/J3 - lon/360 rounded to the
\* nearest integer, |n - n_x| <= 0.5, and a tie is resolved upwards
\* (n = n_x + 0.5), which is away from zero for positive n_x and towards
\* zero for negative n_x.
TransitRoundsTiesUpwards ==
  InTransitLoop =>
    /\ n_x = Transit_n_xOf(jd, p, lon)
    /\ IsWhole(n)
    /\ Le(Abs(Sub(n, n_x)), Half)
    /\ TransitTie => n = Add(n_x, Half)

NegativeTieRoundedUpwards ==
  /\ InTransitLoop
  /\ n_x = Neg(Fin(1, 50000000))
  /\ n = Neg(One)

\* the iterate one refinement of Transit computes from the current one
TransitNextIterate ==
  TransitStep(J_transit, HourAngle(J_transit, p, lon).val, TransitJ3(p))

\* C16: the string Transit remembers is the six-digit formatting of the
\* J_transit held before the update; an iteration leaves the loop exactly
\* when the formatting of the updated J_transit is identical to it, and
\* Transit then returns the updated value with a nil error.
TransitExitsWhenFormattingUnchanged ==
  [][pc = "Transit.loop" =>
       /\ J_str = Sprintf6(J_transit)
       /\ J_transit' = TransitNextIterate
       /\ (pc' # "Transit.loop") <=> (Sprintf6(J_transit') = J_str)
       /\ (pc' = "done") => ret' = Ret(J_transit', Nil)]_vars

TransitReturnedAfterSeveralIterations ==
  /\ ReturnedFrom("Transit")
  /\ p \in ValidBodies
  /\ transitIters > 1
  /\ ret = Ret(J_transit, Nil)
  /\ Sprintf6(ret.val) = J_str

\* the correction (H / 360.0) * J3 one refinement of Transit applies
TransitCorrection ==
  Mul(Div(HourAngle(J_transit, p, lon).val, Whole(360)), TransitJ3(p))

TransitWithinOneSolarDayOfInput ==
  (ReturnedFrom("Transit") /\ p \in ValidBodies /\ IsFin(ret.val)) =>
    Le(Abs(Sub(ret.val, jd)), Abs(TransitJ3(p)))

\* C20: while Transit's loop runs, M and l are MeanAnomaly and
\* EclipticLongitude at the caller's jd, the first estimate is computed
\* from them, and an iteration evaluates HourAngle at the current J_transit
\* and changes J_transit and the remembered string only (and, on leaving the
\* loop, the result).
TransitEvaluatesMAndLambdaOnce ==
  [][pc = "Transit.loop" =>
       /\ M = MeanAnomaly(jd, p).val
       /\ l = EclipticLongitude(jd, p).val
       /\ transitIters = 0 => J_transit = TransitEstimate(jd, p, lon, M, l)
       /\ J_transit' = TransitNextIterate
       /\ J_str' = Sprintf6(IF pc' = "Transit.loop" THEN J_transit'
                            ELSE J_transit)
       /\ UNCHANGED <<M, l, op, p, jd, lat, lon, H_rise, J_rise, riseIters,
                      H_set, J_set, setIters, str, n_x, n, t>>]_vars

\* an iteration after which J_transit is no longer at the caller's jd, so
\* that M and l evaluated there would differ
TransitIteratedAwayFromInput ==
  /\ pc = "Transit.loop"
  /\ op = "Transit"
  /\ transitIters > 0
  /\ M = MeanAnomaly(jd, p).val
  /\ M # MeanAnomaly(J_transit, p).val
  /\ l # EclipticLongitude(J_transit, p).val

\* C18: for every body 0..5 a call of Transit that has entered its loop
\* leaves it after finitely many iterations.
TransitLoopEnds == (pc = "Transit.loop") ~> (pc # "Transit.loop")

RECURSIVE TransitRun(_, _, _, _, _)
\* Transit's loop run alone from iterate J with the remembered string s:
\* the result after at most k further iterations ("running" if none ends it)
TransitRun(J, s, b, lo, k) ==
  IF k = 0 THEN "running"
  ELSE CHOOSE r \in
         {IF Sprintf6(Jn) = s THEN Ret(Jn, Nil)
          ELSE TransitRun(Jn, Sprintf6(Jn), b, lo, k - 1) :
          Jn \in {TransitStep(J, HourAngle(J, b, lo).val, TransitJ3(b))}} :
         TRUE

\* what Transit(j, b, lo) returns when it is the only invocation
TransitAlone(j, b, lo) ==
  IF b \notin ValidBodies THEN Ret(Zero, ErrInvalidEnum)
  ELSE CHOOSE r \in
         {TransitRun(J, Sprintf6(J), b, lo, MaxIter) :
          J \in {TransitEstimate(j, b, lo, MeanAnomaly(j, b).val,
                                 EclipticLongitude(j, b).val)}} : TRUE

\* C12: no step of an invocation changes the package-level variables; under
\* every interleaving each invocation returns what it returns when it runs
\* alone, and two invocations with equal arguments return equal results.
ConcurrentInvocationsReturnAsAlone ==
  /\ mem[PackageLevel] = PackageVars
  /\ \A i \in Invocations :
       calls[i].pc = "done" =>
         calls[i].ret = TransitAlone(calls[i].jd, calls[i].p, calls[i].lon)
  /\ \A i, j \in Invocations :
       (calls[i].pc = "done" /\ calls[j].pc = "done"
          /\ calls[i].jd = calls[j].jd /\ calls[i].p = calls[j].p
          /\ calls[i].lon = calls[j].lon) =>
         calls[i].ret = calls[j].ret

\* both invocations have returned, with different arguments, after their
\* iterations interleaved
BothInvocationsReturned ==
  /\ \A i \in Invocations : calls[i].pc = "done" /\ calls[i].ret.err = Nil
  /\ calls[1].p # calls[2].p
  /\ mem[1].iters > 1 /\ mem[2].iters > 1

\* the correction scale 360 / (T1 - M1) of body p
J3Of(b) == Div(Whole(360), Sub(T1Table[b + 1], M1Table[b + 1]))

\* the hour angle an iteration of Sunrise or Sunset uses, after normalize90
NormalizedHourAngleAt(J) == normalize90(HourAngle(J, p, lon).val)

\* C21: Sunrise and Sunset take J_transit from Transit(jd, p, lon), start
\* from J_rise = J_transit - (H_rise/360)*J3 and J_set = J_transit +
\* (H_set/360)*J3, and each iteration subtracts ((H + H_rise)/360)*J3 and
\* ((H - H_set)/360)*J3; H_rise and H_set are computed once, from the
\* declination at jd, and do not change.
SunriseAndSunsetRefineFromTransit ==
  [][/\ pc \in {"Sunrise.estimate", "Sunset.estimate"} =>
          /\ Ret(J_transit, Nil) = TransitAlone(jd, p, lon)
          /\ J_rise' = (IF op = "Sunrise"
                        THEN Sub(J_transit, Mul(Div(H_rise, Whole(360)),
                                                J3Of(p)))
                        ELSE J_rise)
          /\ J_set' = (IF op = "Sunset"
                       THEN Add(J_transit, Mul(Div(H_set, Whole(360)),
                                               J3Of(p)))
                       ELSE J_set)
     /\ pc = "Sunrise.loop" =>
          /\ H_rise = SunriseH_rise(p, lat, Declination(jd, p).val)
          /\ J_rise' = Sub(J_rise, Mul(Div(Add(NormalizedHourAngleAt(J_rise),
                                               H_rise), Whole(360)),
                                       J3Of(p)))
     /\ pc = "Sunset.loop" =>
          /\ H_set = SunsetH_set(p, lat, Declination(jd, p).val)
          /\ J_set' = Sub(J_set, Mul(Div(Sub(NormalizedHourAngleAt(J_set),
                                             H_set), Whole(360)),
                                     J3Of(p)))
     /\ pc \in {"Transit.loop", "Sunrise.estimate", "Sunrise.loop",
                "Sunset.estimate", "Sunset.loop"} =>
          UNCHANGED <<H_rise, H_set>>]_vars

SunsetOfEarthOnTestDayReturned ==
  /\ ReturnedFrom("Sunset")
  /\ p = 2 /\ jd = TestDay /\ lat = Fin(52, 0) /\ lon = Neg(Fin(5, 0))
  /\ setIters > 1
  /\ Near(ret.val, Fin(2453097, 26004027))

\* the iterate the next refinement step of Sunrise or Sunset starts from
RefinementIterate == IF pc = "Sunrise.loop" THEN J_rise ELSE J_set

\* a is in (-180, 180]
WithinHalfTurn(a) == Gt(a, Neg(Whole(180))) /\ Le(a, Whole(180))

InRefinementLoop == pc \in {"Sunrise.loop", "Sunset.loop"}

SolversShareCorrectionScale ==
  [][/\ pc \in {"Transit.loop", "Sunrise.loop", "Sunset.loop"} =>
          /\ TransitJ3(p) = J3Of(p)
          /\ SunriseJ3(p) = J3Of(p)
          /\ SunsetJ3(p) = J3Of(p)
     /\ pc = "Transit.loop" =>
          J_transit' = TransitStep(J_transit,
                                   HourAngle(J_transit, p, lon).val, J3Of(p))
     /\ pc = "Sunrise.loop" =>
          J_rise' = SunriseStep(J_rise, NormalizedHourAngleAt(J_rise),
                                H_rise, J3Of(p))
     /\ pc = "Sunset.loop" =>
          J_set' = SunsetStep(J_set, NormalizedHourAngleAt(J_set),
                              H_set, J3Of(p))]_vars

SunriseOfAnotherBodyReturned ==
  /\ ReturnedFrom("Sunrise")
  /\ p \in ValidBodies \ {2}
  /\ riseIters > 1 /\ transitIters > 1
  /\ IsFin(ret.val)

\* the declared SolarTransit constants J0<Body> .. J3<Body>
J0Declared ==
  <<Fin(45, 34970000), Fin(52, 12680000), Fin(0, 90000),
    Fin(0, 90470000), Fin(0, 33450000), Fin(0, 7660000)>>
J1Declared ==
  <<Fin(11, 45560000), Neg(Fin(0, 25160000)), Fin(0, 530000),
    Fin(0, 3050000), Fin(0, 640000), Fin(0, 780000)>>
J2Declared ==
  <<Zero, Fin(0, 990000), Neg(Fin(0, 680000)),
    Neg(Fin(0, 820000)), Zero, Neg(Fin(0, 400000))>>
J3Declared ==
  <<Fin(175, 93860000), Neg(Fin(116, 75050000)), One,
    Fin(1, 2749100), Fin(0, 41357780), Fin(0, 44402760)>>

\* the coefficients Transit computes in its switch for body b
TransitJ0(b) == Mul(TransitJ0Factor(b), Div(TransitJ3(b), Whole(360)))
TransitJ1(b) == Mul(TransitJ1Factor(b), Div(TransitJ3(b), Whole(360)))
TransitJ2(b) == TransitJ2Of(b, Div(TransitJ3(b), Whole(360)))

\* x and y are equal when rounded to four decimal places
EqualToFourPlaces(x, y) == Le(Abs(Sub(x, y)), Fin(0, 5000))

\* x and y differ by a whole multiple of m, to four decimal places
EqualModulo(x, y, m) ==
  LET k == Floor(Add(Div(Sub(x, y), m), Fin(0, 50000000)))
  IN  EqualToFourPlaces(Sub(x, y), Mul(k, m))

J0AndJ1AndJ3AgreeWithDeclared(b) ==
  /\ EqualToFourPlaces(TransitJ3(b), J3Declared[b + 1])
  /\ EqualToFourPlaces(TransitJ1(b), J1Declared[b + 1])
  /\ EqualModulo(TransitJ0(b), J0Declared[b + 1], TransitJ3(b))

\* C24: for each valid body the coefficients Transit uses agree with the
\* declared SolarTransit constants: J3, J1 and J2 to four decimal places,
\* and J0 modulo J3.
TransitCoefficientsAgreeWithDeclared ==
  InTransitLoop =>
    /\ J0AndJ1AndJ3AgreeWithDeclared(p)
    /\ EqualToFourPlaces(TransitJ2(p), J2Declared[p + 1])

\* the horizon elevation constants h_0<Body>
h_0Table ==
  <<h_0Mercury, h_0Venus, h_0Earth, h_0Mars, h_0Jupiter, h_0Saturn>>

\* ((sin(h0) - sin(lat) * sin(d)) / cos(lat)) * cos(d), angles in degrees
ArccosineArgument(h0, la, d) ==
  Mul(Div(Sub(Sin(TimesRAD(h0)),
              Mul(Sin(TimesRAD(la)), Sin(TimesRAD(d)))),
          Cos(TimesRAD(la))),
      Cos(TimesRAD(d)))

\* the horizon hour angle of body p at latitude lat, from the declination
\* at the caller's jd
HorizonHourAngleOfCall ==
  TimesDEG(Acos(ArccosineArgument(h_0Table[p + 1], lat,
                                  Declination(jd, p).val)))

InSunrise ==
  op = "Sunrise" /\ pc \in {"Transit.loop", "Sunrise.estimate", "Sunrise.loop"}

InSunset ==
  op = "Sunset" /\ pc \in {"Transit.loop", "Sunset.estimate", "Sunset.loop"}

\* C25: in Sunrise and Sunset, for every valid body, the arccosine is taken
\* of ((sin(h0) - sin(lat)*sin(d)) / cos(lat)) * cos(d) with the body's own
\* h0 and d the declination at the caller's jd; Sunrise and Sunset compute
\* the same value for equal inputs.
HorizonHourAngleDividesByCosLatOnly ==
  /\ InSunrise => H_rise = HorizonHourAngleOfCall
  /\ InSunset => H_set = HorizonHourAngleOfCall

SunsetOfMarsHasHorizonHourAngle ==
  /\ InSunset /\ pc = "Sunset.loop" /\ p = 3
  /\ IsFin(H_set) /\ Gt(H_set, Zero)
  /\ H_set # TimesDEG(Acos(HorizonRatioOverBoth(TimesRAD(h_0Mars),
                                                TimesRAD(lat),
                                                TimesRAD(Declination(jd, p).val))))

\* C26: for every valid body and every jd, lat, lon for which the horizon
\* hour angle is a number, Sunrise(jd, p, lat, lon) <= Transit(jd, p, lon)
\* <= Sunset(jd, p, lat, lon); J_transit is what Transit(jd, p, lon)
\* returned to Sunrise and to Sunset.
SunriseTransitSunsetOrdered ==
  /\ (ReturnedFrom("Sunrise") /\ p \in ValidBodies /\ IsFin(H_rise)) =>
       Le(ret.val, J_transit)
  /\ (ReturnedFrom("Sunset") /\ p \in ValidBodies /\ IsFin(H_set)) =>
       Le(J_transit, ret.val)

\* the horizon hour angle of the running call is not a number
HorizonHourAngleIsNaN ==
  \/ pc = "Sunrise.loop" /\ IsNaN(H_rise)
  \/ pc = "Sunset.loop" /\ IsNaN(H_set)

\* C27: when H_rise (or H_set) is not-a-number, Sunrise (or Sunset) leaves
\* its refinement loop after exactly one iteration and returns the
\* not-a-number iterate, whose formatting is "NaN" before and after the
\* update.
NaNHorizonHourAngleExitsAfterOneIteration ==
  [][HorizonHourAngleIsNaN =>
       /\ str = Sprintf6(NaN) /\ str' = Sprintf6(NaN)
       /\ IF pc = "Sunrise.loop"
          THEN riseIters = 0 /\ riseIters' = 1
          ELSE setIters = 0 /\ setIters' = 1
       /\ pc' = "done"
       /\ IsNaN(ret'.val)]_vars

SunsetAtThePoleReturnedAfterOneIteration ==
  /\ ReturnedFrom("Sunset")
  /\ lat = Fin(90, 0) /\ IsNaN(H_set)
  /\ setIters = 1 /\ transitIters > 1
  /\ IsNaN(ret.val) /\ ret.err = Nil

RECURSIVE TransitWithin(_, _, _, _, _)
\* Transit's loop from iterate J with the remembered string s, for at most
\* k iterations: whether it ended, and the last iterate
TransitWithin(J, s, b, lo, k) ==
  IF k = 0 THEN [ended |-> FALSE, val |-> J]
  ELSE CHOOSE r \in
         {IF Sprintf6(Jn) = s THEN [ended |-> TRUE, val |-> Jn]
          ELSE TransitWithin(Jn, Sprintf6(Jn), b, lo, k - 1) :
          Jn \in {TransitStep(J, HourAngle(J, b, lo).val, TransitJ3(b))}} :
         TRUE

\* Transit(jd, p, lon + 360) for the jd, p and lon of the running call
TransitOneTurnFurther ==
  CHOOSE r \in
    {TransitWithin(J, Sprintf6(J), p, Add(lon, Whole(360)), MaxIter) :
     J \in {TransitEstimate(jd, p, Add(lon, Whole(360)),
                            MeanAnomaly(jd, p).val,
                            EclipticLongitude(jd, p).val)}} : TRUE

\* C28: Transit is periodic in observer longitude with period 360: for a
\* valid body and finite jd and lon, Transit(jd, p, lon) and
\* Transit(jd, p, lon + 360) return the same instant up to the six-decimal
\* convergence precision.
TransitPeriodicInLongitude ==
  (ReturnedFrom("Transit") /\ p \in ValidBodies
     /\ TransitOneTurnFurther.ended) =>
    Le(Abs(Sub(ret.val, TransitOneTurnFurther.val)), Fin(0, 200))

\* the date-time d expressed with a zero UTC offset: local time = UTC +
\* offset, so the UTC hour is the local hour less the offset (for a whole
\* number of hours that stays within the day)
InUTC(d) ==
  Time(d.year, d.month, d.day, d.hour - Quo(d.offset, 3600), d.minute,
       d.second, 0)

StaysWithinTheDay(d) ==
  /\ d.offset = 3600 * Quo(d.offset, 3600)
  /\ d.hour - Quo(d.offset, 3600) \in 0..23

\* C29: ToJulianDay depends only on the instant denoted: a date-time with a
\* UTC offset (18:11:10-01:00) and the same instant expressed in UTC
\* (19:11:10Z) yield the same Julian Day Number.
ToJulianDayDependsOnInstantOnly ==
  (ReturnedFrom("ToJulianDay") /\ StaysWithinTheDay(t)) =>
    Near(ret.val, ToJulianDay(InUTC(t)))

\* a is between -90 and 90 degrees
WithinQuarterTurn(a) == Ge(a, Neg(Whole(90))) /\ Le(a, Whole(90))

\* C30: normalize90 normalizes any angle to be between -90 degrees and 90
\* degrees, as its doc comment states; it is applied to the hour angle of
\* every refinement iteration of Sunrise and Sunset.
normalize90YieldsQuarterTurn ==
  (InRefinementLoop /\ IsFin(RefinementIterate)) =>
    WithinQuarterTurn(NormalizedHourAngleAt(RefinementIterate))

====
